---- MODULE Spec2Model ----
(***************************************************************************)
(* juce-cmp: the host side of the cross-process UI embedding.              *)
(*                                                                         *)
(* ComposeComponent owns a ComposeProvider, which owns a Surface, a        *)
(* MachPortIPC endpoint, a ChildProcess, an Ipc channel and a SurfaceView. *)
(* The owning (message) thread runs launch/stop and the callbacks posted    *)
(* with MessageManager::callAsync; the Ipc reader thread and the Mach       *)
(* handshake thread run beside it, and so does the child process.           *)
(*                                                                         *)
(* Three specifications are given:                                         *)
(*   Spec       the provider driven by ComposeComponent (tryLaunch, then   *)
(*              destruction, which calls ComposeProvider::stop twice and   *)
(*              then the members' destructors);                            *)
(*   SpecChild  ChildProcess used directly (launch / stop in any order);   *)
(*   SpecIpc    Ipc used directly on the endpoint of a running child.      *)
(* FairSpec, FairSpecChild and FairSpecIpc add the scheduling the platform *)
(* guarantees.                                                             *)
(***************************************************************************)
EXTENDS Integers, Sequences, FiniteSets, TLC

\* ---------------------------------------------------------------- bounds
MaxLaunch == 2      \* child processes forked in one behaviour
MaxResize == 2      \* resize calls in one behaviour
MaxCalls == 2       \* sendInput and sendEvent calls in one behaviour
MaxSend == 2        \* messages one child writes during its life
MaxWrite == 3       \* messages a child writes to a receiver used on its own
MaxEnqueue == 3     \* trees a receiver thread hands to enqueue in one behaviour
MaxBuffer == 3      \* bytes in the buffer handed to one writeNonBlocking call
MaxClock == 2       \* milliseconds the sender's clock advances in one behaviour

\* ------------------------------------------------------ program constants
EVENT_TYPE_CMP == 1
EVENT_TYPE_JUCE == 2
EVENT_TYPE_SURFACE_ID == 3
EVENT_TYPE_MIDI == 4
CMP_SUBTYPE_FIRST_FRAME == 0
GracePolls == 20
MaxGenericSize == 1048576
MaxMidiSize == 255
EVENT_TYPE_INPUT == 0
INPUT_EVENT_MOUSE == 0
INPUT_EVENT_KEY == 1
INPUT_EVENT_FOCUS == 2
INPUT_EVENT_RESIZE == 3
INPUT_ACTION_PRESS == 0
INPUT_ACTION_RELEASE == 1
INPUT_ACTION_MOVE == 2
INPUT_ACTION_SCROLL == 3
INPUT_BUTTON_LEFT == 1
InputEventSize == 16

VARIABLES
    surface,        \* Surface: [cur, prev] surface ids, 0 = nullptr
    live,           \* surfaces allocated and not yet released (the OS's view)
    mach,           \* MachPortIPC + machPortThread_: [server, thread]
    pushed,         \* surface id last pushed over the Mach channel, 0 = none
    view,           \* SurfaceView: [created, surface]
    child,          \* ChildProcess: [pid, stdinFD, stdoutFD]
    pollI,          \* ChildProcess::stop: the loop counter i
    proc,           \* OS process table: pid -> "unused"|"running"|"zombie"|"reaped"
    killed,         \* pids that were sent SIGKILL
    fdt,            \* the host's descriptor table: fd -> [kind, pid]
    rx,             \* bytes written by child p and not yet read by the host
    sent,           \* number of messages child p has written
    ipc,            \* Ipc: [socketFD, running, onFrameReady]
    readerPc,       \* Ipc::readerThread: "none" | "loop" | "tag" | "cmp_sub" | "exited"
    rdBuf,          \* bytes readFully has accumulated in the current call
    asyncQ,         \* callbacks posted with callAsync, not yet run
    invoked,        \* handler invocations made on the owning thread, in order
    launched_,      \* ComposeComponent::launched_
    firstFrameReceived_,  \* ComposeComponent::firstFrameReceived_
    destroyed,      \* the component (and its provider) has been destroyed
    todo,           \* owning thread: the stop() calls still to run, head = current
    step,           \* owning thread: position inside the current call, or "idle"
    lastSys,        \* system call made by the owning thread's latest step
    lastCall,       \* the latest API call: [op, ok, exe, fault]
    rxClass,        \* the channel's classes: "Ipc" (both directions), or "EventReceiver"
                    \* with InputSender as the sending side
    rdLen,          \* the length header the reader has parsed for the current message
    pendingTrees,   \* EventReceiver::pendingTrees: key -> tree code, 0 = no entry
    rdKey,          \* EventReceiver::enqueue: the key whose dispatch is about to be posted
    wire,           \* every message the child has written, in order
    tx,             \* bytes the host has written to child p's end of the control stream
    calls,          \* the send calls made, in order: [op, parts, open], open when the
                    \* call found the channel valid
    surfaceOps,     \* the provider's calls so far: surfaces created and released,
                    \* resizes, and where the provider is in its life
    now,            \* milliseconds since the channel was attached (the sender's clock)
    codec,          \* an InputEvent on its way through the wire format:
                    \* [pc, event, bytes, decoded]
    pendingMutex,   \* EventReceiver::pendingMutex: "free", or the thread holding it
    enqueuePc,      \* the receiver thread inside enqueue: [pc, key, tree, n]
    lambdaPc,       \* the owning thread inside the posted dispatch: [pc, key, tree]
    wr,             \* the owning thread inside writeNonBlocking: the loop's
                    \* locals, the descriptor's flags and what the call has done
    rz,             \* the owning thread inside ComposeProvider::resize: the next
                    \* statement, the surface it allocated, the statements done
    hs,             \* machPortThread_ inside sendSurfacePort: [pc, port], the
                    \* local surfacePort between createMachPort and sendPort
    uir             \* UIReceiver and its FIFO: running, fd, the reader thread's
                    \* position, stop()'s position, the child's write end

vars == <<surface, live, mach, pushed, view, child, pollI, proc,
          killed, fdt, rx, sent, ipc, readerPc, rdBuf, asyncQ, invoked,
          launched_, firstFrameReceived_, destroyed, todo, step, lastSys,
          lastCall, rxClass, rdLen, pendingTrees, rdKey, wire, tx, calls,
          surfaceOps, now, codec, pendingMutex, enqueuePc, lambdaPc, wr, rz, hs, uir>>

surfaceVars == <<surface, live, pushed, view>>
childVars == <<child, pollI, proc, killed>>
ipcVars == <<ipc, readerPc, rdBuf>>
uiVars == <<asyncQ, invoked, launched_, firstFrameReceived_, destroyed>>
rxVars == <<rxClass, rdLen, pendingTrees, rdKey, wire>>
sendVars == <<tx, calls, surfaceOps>>
lockVars == <<pendingMutex, enqueuePc, lambdaPc>>
tailVars == <<rz, hs, uir>>
auxVars == <<now, codec, lockVars, wr, tailVars>>
extVars == <<rxVars, sendVars, auxVars>>

Pids == 1..MaxLaunch
Fds == 3..(2 + 4 * MaxLaunch)

\* ------------------------------------------------------------ OS: files
Free == [kind |-> "free", pid |-> 0]

FreeFds(t) == {f \in Fds : t[f] = Free}

Lowest(S) == CHOOSE x \in S : \A y \in S : x <= y

\* close(2): EBADF (nothing happens) when fd is not an open descriptor.
CloseFd(t, fd) == IF fd \in Fds THEN [t EXCEPT ![fd] = Free] ELSE t

IsOpen(t, fd) == fd \in Fds /\ t[fd] # Free

\* pipe(2): the two lowest free descriptors, [0] the read end, [1] the write end.
PipeRead(t) == Lowest(FreeFds(t))
PipeWrite(t) == Lowest(FreeFds(t) \ {PipeRead(t)})
OpenPipe(t, rkind, wkind, p) ==
    [t EXCEPT ![PipeRead(t)] = [kind |-> rkind, pid |-> p],
              ![PipeWrite(t)] = [kind |-> wkind, pid |-> p]]

\* ---------------------------------------------------------- OS: processes
UnusedPids(pr) == {p \in Pids : pr[p] = "unused"}

\* waitpid(pid, &status, WNOHANG): 0 while the child runs, the pid when it
\* reaps a zombie, -1 (ECHILD) when there is no such child.
WaitpidNoHang(pr, pid) ==
    IF pid \in Pids /\ pr[pid] = "running" THEN 0
    ELSE IF pid \in Pids /\ pr[pid] = "zombie" THEN pid
    ELSE -1

Reap(pr, pid) ==
    IF pid \in Pids /\ pr[pid] = "zombie" THEN [pr EXCEPT ![pid] = "reaped"] ELSE pr

\* kill(pid, 0) == 0: the pid names a process, running or not yet reaped.
KillZeroSucceeds(pr, pid) == pid \in Pids /\ pr[pid] \in {"running", "zombie"}

\* ----------------------------------------------------------------- Surface
NoSurface == [cur |-> 0, prev |-> 0]

SurfaceIsValid(s) == s.cur # 0

\* Surface::create: allocate a surface and make it current.
SurfaceCreate(s, id) == [s EXCEPT !.cur = id]

\* Surface::release: drop the current surface and the retained previous one.
SurfaceRelease(s) == NoSurface

SurfaceIds(s) == {s.cur, s.prev} \ {0}

\* The surfaces a Surface call has released: held before it, not held after it.
Released(s, s2) == SurfaceIds(s) \ SurfaceIds(s2)

\* Surface::resize: allocate a new surface and make it current; the surface that was
\* current is retained as the previous one, and the one retained before is released.
SurfaceResize(s, id) == [cur |-> id, prev |-> s.cur]

\* No Surface call has been made; the provider has not been started.
\* phase: "idle" before start and after stop, "running" in between; valid: the calls
\* made so far are a successful start, resizes, and at most one stop at the end;
\* launchCalls: the calls of launch, counted up to MaxLaunch.
NoSurfaceOps ==
    [create |-> 0, resize |-> 0, release |-> 0, resizeCalls |-> 0, launchCalls |-> 0,
     phase |-> "idle", started |-> FALSE, valid |-> TRUE]

\* The counts after a call that created c surfaces, released r and made z successful
\* resizes; they are kept for valid sequences only.
Counted(o, c, r, z) ==
    IF o.valid
    THEN [o EXCEPT !.create = @ + c, !.release = @ + r, !.resize = @ + z]
    ELSE o

\* The handle the OS gives a new surface: one that names no live surface.
SurfaceHandles == 1..(MaxLaunch + MaxResize + 1)
NewSurfaceId(l) == Lowest(SurfaceHandles \ l)

\* ------------------------------------------------------------ ChildProcess
NoChild == [pid |-> 0, stdinFD |-> -1, stdoutFD |-> -1]

\* An existence check that lets a missing executable through.
ExistsAsFileAlways(exe) == TRUE

\* rendererPath.existsAsFile(): true of every regular file, whether or not
\* its mode allows execution.
ExistsAsFile(exe) == exe \in {"present", "not_executable"}

\* ChildProcess::launch. exe is the state of the UI executable when launch
\* looks for it; fault names the system call that fails, if any.
ChildLaunch(c, t, pr, exe, fault) ==
    LET p == IF UnusedPids(pr) = {} THEN 0 ELSE Lowest(UnusedPids(pr))
        failed == [ok |-> FALSE, child |-> c, fdt |-> t, proc |-> pr]
    IN  IF ~ExistsAsFile(exe) THEN failed
        ELSE IF fault = "pipe1" \/ Cardinality(FreeFds(t)) < 2 THEN failed
        ELSE
          LET r1 == PipeRead(t)
              w1 == PipeWrite(t)
              t1 == OpenPipe(t, "in_r", "in_w", p)
          IN  IF fault = "pipe2" \/ Cardinality(FreeFds(t1)) < 2
              THEN [failed EXCEPT !.fdt = CloseFd(CloseFd(t1, r1), w1)]
              ELSE
                LET r2 == PipeRead(t1)
                    w2 == PipeWrite(t1)
                    t2 == OpenPipe(t1, "out_r", "out_w", p)
                IN  IF fault = "fork" \/ p = 0
                    THEN [failed EXCEPT
                            !.child = [c EXCEPT !.pid = -1],
                            !.fdt = CloseFd(CloseFd(CloseFd(CloseFd(t2, r1), w1), r2), w2)]
                    ELSE [ok |-> TRUE,
                          child |-> [pid |-> p, stdinFD |-> w1, stdoutFD |-> r2],
                          fdt |-> CloseFd(CloseFd(t2, r1), w2),
                          proc |-> [pr EXCEPT ![p] = "running"]]

\* ChildProcess::isRunning
ChildIsRunning(c, pr) == IF c.pid <= 0 THEN FALSE ELSE KillZeroSucceeds(pr, c.pid)

\* ChildProcess::getSocketFD: the descriptor Ipc is attached to. ChildProcess.cpp
\* keeps the endpoint as a pipe pair; Ipc's reader is given the side the host reads.
GetSocketFD(c) == c.stdoutFD

\* --------------------------------------------------------------------- Ipc
NoIpc == [socketFD |-> -1, running |-> FALSE, onFrameReady |-> FALSE,
          onEvent |-> FALSE, onMidi |-> FALSE]

\* Ipc::setSocketFD
SetSocketFD(i, fd) == [i EXCEPT !.socketFD = fd]

\* Ipc::startReceiving: the new value of running, and whether a thread is started.
StartsThread(i) == ~i.running /\ i.socketFD >= 0
StartReceiving(i) == IF StartsThread(i) THEN [i EXCEPT !.running = TRUE] ELSE i

\* ------------------------------------------------------------- MachPortIPC
NoMach == [server |-> FALSE, thread |-> "none", client |-> FALSE]

\* MachPortIPC::destroyServer
DestroyServer(m) == [m EXCEPT !.server = FALSE, !.client = FALSE]

\* -------------------------------------------------------------- SurfaceView
NoView == [created |-> FALSE, surface |-> 0, pending |-> 0]

\* ------------------------------------------------------ inbound messages
\* A little-endian 32-bit length header.
Le32(b) == b[1] + 256 * b[2] + 65536 * b[3] + 16777216 * b[4]
Le32Bytes(n) == <<n % 256, (n \div 256) % 256, (n \div 65536) % 256, (n \div 16777216) % 256>>

\* The ValueTrees the UI sends: type, the "id" property ("" = none) and a value.
Trees ==
    << [type |-> "param", id |-> "1", val |-> 1],
       [type |-> "param", id |-> "1", val |-> 2],
       [type |-> "param", id |-> "2", val |-> 1],
       [type |-> "param_1", id |-> "", val |-> 1] >>
TreeCodes == 1..Len(Trees)

\* tree.writeToStream / ValueTree::readFromData: a tree travels as its code; any
\* other payload reads back as an invalid tree (0).
WriteToStream(c) == <<c>>
ReadFromData(data) == IF Len(data) = 1 /\ data[1] \in TreeCodes THEN data[1] ELSE 0
TreeIsValid(c) == c # 0

\* A key that ignores the id property.
TreeKeyTypeOnly(t) == t.type

\* EventReceiver::enqueue: the coalescing key of a tree.
TreeKey(t) == IF t.type = "param" /\ t.id # "" THEN t.type \o "_" \o t.id ELSE t.type

Keys == {TreeKey(Trees[c]) : c \in TreeCodes}

\* The messages as the UI writes them.
FrameReadyMsg == <<EVENT_TYPE_CMP, CMP_SUBTYPE_FIRST_FRAME>>
GenericMsg(payload) == <<EVENT_TYPE_JUCE>> \o Le32Bytes(Len(payload)) \o payload
MidiMsg(data) == <<EVENT_TYPE_MIDI, Len(data)>> \o data

\* A callback as it sits in the message queue, and a handler call as it is made.
Callback(cb, tree, key) == [cb |-> cb, tree |-> tree, key |-> key]

\* A receiver that calls the handler itself.
CallDirect(q, inv, c) == [asyncQ |-> q, invoked |-> Append(inv, c)]

\* juce::MessageManager::callAsync: the callback is queued for the message thread.
CallAsync(q, inv, c) == [asyncQ |-> Append(q, c), invoked |-> inv]

\* ------------------------------------------------------------ Ipc: sending
\* InputEvent e = {}
NoEvent ==
    [type |-> 0, action |-> 0, button |-> 0, modifiers |-> 0, x |-> 0, y |-> 0,
     data1 |-> 0, data2 |-> 0, timestamp |-> 0]

\* static_cast<int16_t>(n), as the two bytes the host's memory holds (little-endian).
Le16Bytes(n) == <<(n % 65536) % 256, (n % 65536) \div 256>>

\* A record whose 16-bit fields are written high byte first.
EventBytesBigEndian(e) ==
    <<e.type, e.action, e.button, e.modifiers,
      (e.x % 65536) \div 256, (e.x % 65536) % 256,
      (e.y % 65536) \div 256, (e.y % 65536) % 256,
      (e.data1 % 65536) \div 256, (e.data1 % 65536) % 256,
      (e.data2 % 65536) \div 256, (e.data2 % 65536) % 256>> \o Le32Bytes(e.timestamp)

\* The 16 bytes of the packed struct InputEvent.
EventBytes(e) ==
    <<e.type, e.action, e.button, e.modifiers>> \o Le16Bytes(e.x) \o Le16Bytes(e.y)
        \o Le16Bytes(e.data1) \o Le16Bytes(e.data2) \o Le32Bytes(e.timestamp)

\* static_cast<int16_t>(n) and static_cast<uint8_t>(n) of an int.
Int16(n) == ((n + 32768) % 65536) - 32768
Uint8(n) == n % 256

\* static_cast<int16_t>(f) of a float whose truncated value is n: n when it fits,
\* and not defined otherwise.
FloatToInt16(n) == IF n \in -32768..32767 THEN {n} ELSE {-32768, 0, 32767}

\* InputEventFactory::resize, ::mouseMove, ::mouseButton, ::mouseScroll (d1, d2 the
\* converted deltas), ::key, ::focus
ResizeEvent(width, height, scale100) ==
    [NoEvent EXCEPT !.type = INPUT_EVENT_RESIZE, !.x = Int16(width), !.y = Int16(height),
                    !.data1 = scale100]
MouseMoveEvent(x, y, modifiers) ==
    [NoEvent EXCEPT !.type = INPUT_EVENT_MOUSE, !.action = INPUT_ACTION_MOVE,
                    !.modifiers = Uint8(modifiers), !.x = Int16(x), !.y = Int16(y)]
MouseButtonEvent(x, y, button, pressed, modifiers) ==
    [NoEvent EXCEPT !.type = INPUT_EVENT_MOUSE,
                    !.action = IF pressed THEN INPUT_ACTION_PRESS ELSE INPUT_ACTION_RELEASE,
                    !.button = Uint8(button), !.modifiers = Uint8(modifiers),
                    !.x = Int16(x), !.y = Int16(y)]
MouseScrollEvent(x, y, d1, d2, modifiers) ==
    [NoEvent EXCEPT !.type = INPUT_EVENT_MOUSE, !.action = INPUT_ACTION_SCROLL,
                    !.modifiers = Uint8(modifiers), !.x = Int16(x), !.y = Int16(y),
                    !.data1 = d1, !.data2 = d2]
KeyEvent(keyCode, codepoint, pressed, modifiers) ==
    [NoEvent EXCEPT !.type = INPUT_EVENT_KEY,
                    !.action = IF pressed THEN INPUT_ACTION_PRESS ELSE INPUT_ACTION_RELEASE,
                    !.modifiers = Uint8(modifiers), !.x = Int16(keyCode),
                    !.data1 = Int16(codepoint % 65536),
                    !.data2 = Int16((codepoint \div 65536) % 65536)]
FocusEvent(focused) ==
    [NoEvent EXCEPT !.type = INPUT_EVENT_FOCUS, !.data1 = IF focused THEN 1 ELSE 0]

\* The receiving side's reading of the 16-byte record: one byte each for type,
\* action, button and modifiers, then x, y, data1, data2 as signed 16-bit and the
\* timestamp as unsigned 32-bit values, little-endian.
EventFromBytes(b) ==
    [type |-> b[1], action |-> b[2], button |-> b[3], modifiers |-> b[4],
     x |-> Int16(b[5] + 256 * b[6]), y |-> Int16(b[7] + 256 * b[8]),
     data1 |-> Int16(b[9] + 256 * b[10]), data2 |-> Int16(b[11] + 256 * b[12]),
     timestamp |-> Le32(SubSeq(b, 13, 16))]

\* The owning thread is outside ComposeProvider::resize; done keeps the
\* statements the latest call got through.
\* A UIReceiver after construction (running false, fd = -1, no thread), a FIFO
\* that the child has not opened and holds nothing, and a child that runs.
NoUIReceiver ==
    [running |-> FALSE, fd |-> -1, pc |-> "none", stop |-> "idle", starts |-> 0,
     writer |-> "never", woken |-> FALSE, childUp |-> TRUE, avail |-> 0, written |-> 0,
     got |-> 0]

\* machPortThread_ is not inside sendSurfacePort.
NoHandshake == [pc |-> "none", port |-> 0]

NoResize == [pc |-> 0, id |-> 0, req |-> [width |-> 0, height |-> 0, scale |-> 0],
             done |-> <<>>]

\* The owning thread is outside writeNonBlocking.
NoWrite == [pc |-> "idle", s |-> [attempts |-> 0, total |-> 0, ret |-> "run"],
            size |-> 0, flags |-> {}, stalls |-> 0, turns |-> 0, waited |-> FALSE]

\* The receiver thread is outside enqueue; n counts its calls so far.
NoEnqueue == [pc |-> "idle", key |-> "", tree |-> 0, n |-> 0]

\* The owning thread is outside the dispatch posted by enqueue.
NoLambda == [pc |-> "idle", key |-> "", tree |-> 0]

NoCodec == [pc |-> "idle", event |-> NoEvent, bytes |-> <<>>, decoded |-> NoEvent]

\* Ipc::sendInput and Ipc::sendEvent: the buffers they hand to writeNonBlocking, in
\* order, and whether the result of the last write is looked at.
InputParts(e) == <<<<EVENT_TYPE_INPUT>>, EventBytes(e)>>

\* A sendEvent that writes the length as a 16-bit value.
GenericPartsShortLength(c) ==
    <<<<EVENT_TYPE_JUCE>>, Le16Bytes(Len(WriteToStream(c))), WriteToStream(c)>>

GenericParts(c) ==
    <<<<EVENT_TYPE_JUCE>>, Le32Bytes(Len(WriteToStream(c))), WriteToStream(c)>>

\* The stream as its reader frames it: the complete messages, in order, up to the
\* first incomplete one or the first tag that is not an Input or a Generic message.
RECURSIVE Decode(_)
Decode(b) ==
    IF b = <<>> THEN <<>>
    ELSE IF b[1] = EVENT_TYPE_INPUT
    THEN IF Len(b) >= 1 + InputEventSize
         THEN <<SubSeq(b, 1, 1 + InputEventSize)>>
                  \o Decode(SubSeq(b, 2 + InputEventSize, Len(b)))
         ELSE <<>>
    ELSE IF b[1] = EVENT_TYPE_JUCE
    THEN IF Len(b) >= 5 /\ Len(b) >= 5 + Le32(SubSeq(b, 2, 5))
         THEN <<SubSeq(b, 1, 5 + Le32(SubSeq(b, 2, 5)))>>
                  \o Decode(SubSeq(b, 6 + Le32(SubSeq(b, 2, 5)), Len(b)))
         ELSE <<>>
    ELSE <<>>

RECURSIVE Flatten(_)
Flatten(parts) == IF parts = <<>> THEN <<>> ELSE Head(parts) \o Flatten(Tail(parts))

\* What one ::write(socketFD, ...) of up to remaining bytes can return: a count
\* n > 0, 0 for -1 with errno EAGAIN/EWOULDBLOCK, -1 for any other failure. A
\* descriptor that is not open, or whose peer is gone, fails; otherwise the kernel
\* takes some or all of the bytes, or none when its buffer is full.
WriteReturns(t, pr, fd, remaining) ==
    IF ~IsOpen(t, fd) \/ t[fd].pid \notin Pids THEN {-1}
    ELSE IF pr[t[fd].pid] # "running" THEN {-1}
    ELSE 0..remaining

\* for (int attempts = 0; attempts < 3 && totalWritten < size; ++attempts)
MaxAttempts == 3

\* writeNonBlocking's loop: [attempts, total, ret], ret "run" while in the loop.
\* One turn: the condition, one ::write, the branch taken, ++attempts.
LoopTurn(s, size, t, pr, fd) ==
    IF s.ret # "run" THEN {}
    ELSE IF s.attempts < MaxAttempts /\ s.total < size
    THEN { IF n > 0 THEN [attempts |-> 0 + 1, total |-> s.total + n, ret |-> "run"]
           ELSE IF n = 0 THEN [s EXCEPT !.attempts = @ + 1]
           ELSE [s EXCEPT !.ret = "false"] :
           n \in WriteReturns(t, pr, fd, size - s.total) }
    ELSE {[s EXCEPT !.ret = IF s.total # size THEN "false" ELSE "true"]}

RECURSIVE LoopReach(_, _, _, _, _, _)
LoopReach(seen, frontier, size, t, pr, fd) ==
    IF frontier = {} THEN seen
    ELSE LET new == UNION {LoopTurn(s, size, t, pr, fd) : s \in frontier} \ seen
         IN  LoopReach(seen \cup new, new, size, t, pr, fd)

\* Ipc::writeNonBlocking(data, size): every [ok, written] it can return with.
WriteNonBlocking(size, t, pr, fd) ==
    LET start == [attempts |-> 0, total |-> 0, ret |-> "run"]
    IN  { [ok |-> s.ret = "true", written |-> s.total] :
          s \in {x \in LoopReach({start}, {start}, size, t, pr, fd) : x.ret # "run"} }

\* InputSender: written = write(pipeFD, data, size); if (written != size) ...
WriteOnce(size, t, pr, fd) ==
    { [ok |-> n = size, written |-> IF n > 0 THEN n ELSE 0] :
      n \in WriteReturns(t, pr, fd, size) }

\* The writes of one send call, stopping at the first write that does not take the
\* whole buffer: every [bytes, ok] with bytes what reached the stream.
RECURSIVE WriteParts(_, _, _, _, _)
WriteParts(cls, parts, t, pr, fd) ==
    IF parts = <<>> THEN {[bytes |-> <<>>, ok |-> TRUE]}
    ELSE UNION {
           IF w.ok
           THEN { [bytes |-> Head(parts) \o rest.bytes, ok |-> rest.ok] :
                  rest \in WriteParts(cls, Tail(parts), t, pr, fd) }
           ELSE { [bytes |-> SubSeq(Head(parts), 1, w.written), ok |-> FALSE] } :
           w \in IF cls = "Ipc"
                 THEN WriteNonBlocking(Len(Head(parts)), t, pr, fd)
                 ELSE WriteOnce(Len(Head(parts)), t, pr, fd) }

\* A send that goes on writing on a channel that has failed.
SocketAfterWriteKept(fd, ok) == fd

\* writeNonBlocking's failure paths: socketFD = -1; return false (InputSender:
\* pipeFD = -1).
SocketAfterWrite(fd, ok) == IF ok THEN fd ELSE -1

\* Ipc::isValid, InputSender::isValid
IsValid(i) == i.socketFD >= 0

\* if (socketFD < 0) return; then the writes.
SendOutcomes(cls, i, parts, t, pr) ==
    IF i.socketFD < 0 THEN {[bytes |-> <<>>, ok |-> TRUE]}
    ELSE WriteParts(cls, parts, t, pr, i.socketFD)

\* The stream and the channel after a send call whose outcome was out.
TxAfter(x, t, fd, out) ==
    IF out.bytes = <<>> THEN x ELSE [x EXCEPT ![t[fd].pid] = @ \o out.bytes]
IpcAfterSend(i, out) == [i EXCEPT !.socketFD = SocketAfterWrite(i.socketFD, out.ok)]

\* ------------------------------------------------------------------- Init
Init ==
    /\ surface = NoSurface
    /\ live = {}
    /\ mach = NoMach
    /\ pushed = 0
    /\ view = NoView
    /\ child = NoChild
    /\ pollI = 0
    /\ proc = [p \in Pids |-> "unused"]
    /\ killed = {}
    /\ fdt = [f \in Fds |-> Free]
    /\ rx = [p \in Pids |-> <<>>]
    /\ sent = [p \in Pids |-> 0]
    /\ ipc = NoIpc
    /\ readerPc = "none"
    /\ rdBuf = <<>>
    /\ asyncQ = <<>>
    /\ invoked = <<>>
    /\ launched_ = FALSE
    /\ firstFrameReceived_ = FALSE
    /\ destroyed = FALSE
    /\ todo = <<>>
    /\ step = "idle"
    /\ lastSys = "none"
    /\ lastCall = [op |-> "none", ok |-> TRUE, exe |-> "present", fault |-> "none"]
    /\ rxClass = "Ipc"
    /\ rdLen = 0
    /\ pendingTrees = [k \in Keys |-> 0]
    /\ rdKey = ""
    /\ wire = <<>>
    /\ tx = [p \in Pids |-> <<>>]
    /\ calls = <<>>
    /\ surfaceOps = NoSurfaceOps
    /\ now = 0
    /\ codec = NoCodec
    /\ pendingMutex = "free"
    /\ enqueuePc = NoEnqueue
    /\ lambdaPc = NoLambda
    /\ wr = NoWrite
    /\ rz = NoResize
    /\ hs = NoHandshake
    /\ uir = NoUIReceiver

ExeStates == {"present", "missing", "vanished"}
Faults == {"none", "surface", "mach", "pipe1", "pipe2", "fork"}

\* The executable as tryLaunch finds it and as ChildProcess::launch finds it a
\* moment later ("vanished": removed between the two looks).
ExeAtTryLaunch(exe) == IF exe = "vanished" THEN "present" ELSE exe
ExeAtChildLaunch(exe) == IF exe = "vanished" THEN "missing" ELSE exe

\* --------------------------------------------------- ComposeProvider::launch
\* The provider's resources as launch sees and changes them.
Resources ==
    [surface |-> surface, live |-> live, mach |-> mach, child |-> child,
     fdt |-> fdt, proc |-> proc]

\* createServer failed: surface_.release(); return false
RollbackMachFailed(r) ==
    [r EXCEPT !.surface = SurfaceRelease(r.surface),
              !.live = r.live \ SurfaceIds(r.surface)]

\* A rollback that forgets the surface.
RollbackChildFailedLeak(r) == [r EXCEPT !.mach = DestroyServer(r.mach)]

\* child_.launch failed: surface_.release(); machPortIPC_.destroyServer(); return false
RollbackChildFailed(r) ==
    [r EXCEPT !.surface = SurfaceRelease(r.surface),
              !.live = r.live \ SurfaceIds(r.surface),
              !.mach = DestroyServer(r.mach)]

\* Up to and including child_.launch: [ok, r] with r the resources afterwards.
LaunchResources(r, id, exe, fault) ==
    IF fault = "surface" THEN [ok |-> FALSE, r |-> r]
    ELSE
      LET r1 == [r EXCEPT !.surface = SurfaceCreate(r.surface, id),
                          !.live = r.live \cup {id}]
      IN  IF fault = "mach" THEN [ok |-> FALSE, r |-> RollbackMachFailed(r1)]
          ELSE
            LET r2 == [r1 EXCEPT !.mach.server = TRUE]
                cl == ChildLaunch(r2.child, r2.fdt, r2.proc, exe, fault)
                r3 == [r2 EXCEPT !.child = cl.child, !.fdt = cl.fdt, !.proc = cl.proc]
            IN  IF ~cl.ok THEN [ok |-> FALSE, r |-> RollbackChildFailed(r3)]
                ELSE [ok |-> TRUE, r |-> r3]

\* ComposeProvider::launch, called by ComposeComponent::tryLaunch; exe is the state
\* of the executable as the whole start attempt meets it.
ProviderLaunch(exe, fault) ==
    LET id == NewSurfaceId(live)
        res == LaunchResources(Resources, id, ExeAtChildLaunch(exe), fault)
        r == res.r
        i1 == [SetSocketFD(ipc, GetSocketFD(r.child)) EXCEPT !.onFrameReady = TRUE,
                                                              !.onEvent = TRUE]
        created == IF fault = "surface" THEN {} ELSE {id}
        \* machPortThread_ = std::thread(...) on a thread that is still joinable
        terminates == res.ok /\ r.mach.thread # "none"
    IN  /\ surface' = r.surface
        /\ live' = r.live
        /\ child' = r.child
        /\ fdt' = r.fdt
        /\ proc' = r.proc
        /\ launched_' = res.ok
        /\ lastCall' = [op |-> "launch", ok |-> res.ok, exe |-> exe, fault |-> fault]
        /\ surfaceOps' =
             Counted([surfaceOps EXCEPT
                        !.launchCalls = IF @ < MaxLaunch THEN @ + 1 ELSE @,
                        !.phase = IF res.ok THEN "running" ELSE @,
                        !.started = @ \/ res.ok,
                        !.valid = @ /\ res.ok /\ ~surfaceOps.started],
                     Cardinality(created),
                     Cardinality((live \cup created) \ r.live), 0)
        /\ IF res.ok
           THEN /\ ipc' = StartReceiving(i1)
                /\ IF terminates
                   THEN /\ readerPc' = "none"
                        /\ mach' = [r.mach EXCEPT !.thread = "none"]
                        /\ step' = "terminated"
                        /\ view' = view
                   ELSE /\ readerPc' = IF StartsThread(i1) THEN "loop" ELSE readerPc
                        /\ mach' = [r.mach EXCEPT !.thread = "waiting"]
                        /\ step' = step
                        /\ view' = [created |-> TRUE, surface |-> r.surface.cur,
                                    pending |-> 0]
           ELSE /\ mach' = r.mach
                /\ UNCHANGED <<ipc, readerPc, view, step>>
        /\ UNCHANGED <<pushed, pollI, killed, rx, sent, rdBuf, asyncQ, invoked,
                       firstFrameReceived_, destroyed, todo, lastSys, rxVars, tx,
                       calls, auxVars>>

\* ComposeComponent::tryLaunch (the peer exists and the bounds are not empty).
TryLaunch ==
    /\ step = "idle" /\ ~destroyed
    /\ ~launched_
    /\ \E exe \in ExeStates, fault \in Faults :
         IF ~ExistsAsFile(ExeAtTryLaunch(exe))
         THEN /\ lastCall' = [op |-> "launch", ok |-> FALSE, exe |-> exe, fault |-> fault]
              /\ UNCHANGED <<surfaceVars, mach, childVars, fdt, rx, sent, ipcVars,
                             uiVars, todo, step, lastSys, extVars>>
         ELSE ProviderLaunch(exe, fault)

\* ------------------------------------------------- the owning thread's calls
\* A stop() that leaves the surface alone.
StopOrderKeepsSurface == <<"mach", "child", "ipc", "view">>

\* A stop() that releases the surface before anything else.
StopOrderSurfaceFirst == <<"surface", "mach", "child", "ipc", "view">>

\* ComposeProvider::stop: the members in the order stop() deals with them.
StopOrder == <<"mach", "child", "ipc", "view", "surface">>

\* ~ComposeComponent calls provider_.stop(); ~ComposeProvider calls stop() again;
\* then the members' destructors run, of which ~Ipc and ~ChildProcess call stop().
MemberDestructors == <<"ipc", "child">>
DestroyCalls == StopOrder \o StopOrder \o MemberDestructors

\* A stop() that waits for the child before closing its stdin.
ChildStopPhasesWaitFirst == <<"reap", "close_stdin", "close_stdout">>

\* ChildProcess::stop: close stdin, wait for the child (poll, kill, wait), close stdout.
ChildStopPhases == <<"close_stdin", "reap", "close_stdout">>

\* Ipc::stop: clear the flag, join the reader, close the socket.
IpcStopPhases == <<"clear", "join", "close">>

\* The phases of the stop of member c.
Phases(c) ==
    CASE c = "mach" -> <<"destroy", "join">>
      [] c = "child" -> ChildStopPhases
      [] c = "ipc" -> IpcStopPhases
      [] c = "view" -> <<"destroy">>
      [] c = "surface" -> <<"release">>

\* The first step of a phase: the wait for the child starts at the polling loop.
EntryStep(phase) == IF phase = "reap" THEN "poll" ELSE phase

FirstStep(c) == EntryStep(Phases(c)[1])

PhaseIndex(c, phase) == CHOOSE i \in 1..Len(Phases(c)) : Phases(c)[i] = phase

At(c, s) == todo # <<>> /\ Head(todo) = c /\ step = s

\* The current call returns: go on with the next one, or become idle.
Return ==
    /\ todo' = Tail(todo)
    /\ step' = IF Len(todo) > 1 THEN FirstStep(todo[2]) ELSE "idle"

\* The phase of member c's stop is over: enter the next phase, or return.
Advance(c, phase) ==
    IF PhaseIndex(c, phase) < Len(Phases(c))
    THEN /\ todo' = todo
         /\ step' = EntryStep(Phases(c)[PhaseIndex(c, phase) + 1])
    ELSE Return

\* stop() has been called: the provider leaves Running.
StopCalled(o) ==
    [o EXCEPT !.phase = "idle", !.valid = @ /\ o.phase = "running"]

\* ~ComposeComponent (ComposeComponent.cpp) followed by ~ComposeProvider.
Destroy ==
    /\ step = "idle" /\ ~destroyed
    /\ destroyed' = TRUE
    /\ todo' = DestroyCalls
    /\ step' = FirstStep(DestroyCalls[1])
    /\ lastSys' = "none"
    /\ lastCall' = [op |-> "stop", ok |-> TRUE, exe |-> "present", fault |-> "none"]
    /\ surfaceOps' = StopCalled(surfaceOps)
    /\ UNCHANGED <<surfaceVars, mach, childVars, fdt, rx, sent, ipcVars,
                   asyncQ, invoked, launched_, firstFrameReceived_, rxVars, tx, calls, auxVars>>

\* ------------------------------------------- ComposeProvider::stop, Apple part
MachDestroy ==
    /\ At("mach", "destroy")
    /\ mach' = DestroyServer(mach)
    /\ lastSys' = "none"
    /\ Advance("mach", "destroy")
    /\ UNCHANGED <<surfaceVars, childVars, fdt, rx, sent, ipcVars, uiVars, lastCall, extVars>>

\* if (machPortThread_.joinable()) machPortThread_.join();
MachJoin ==
    /\ At("mach", "join")
    /\ mach.thread # "waiting"
    /\ mach' = [mach EXCEPT !.thread = "none"]
    /\ lastSys' = "none"
    /\ Advance("mach", "join")
    /\ UNCHANGED <<surfaceVars, childVars, fdt, rx, sent, ipcVars, uiVars, lastCall, extVars>>

\* --------------------------------------------------------- ChildProcess::stop
\* A stop() that closes a descriptor and keeps its number.
FdAfterCloseKept(fd) == fd

\* A stop() that kills and does not wait.
StepAfterKillNoWait == "close_stdout"

\* The value stop() leaves in a descriptor field after closing it.
FdAfterClose(fd) == -1

\* The step that follows kill(childPid, SIGKILL).
StepAfterKill == "wait"

ChildCloseStdin ==
    /\ At("child", "close_stdin")
    /\ IF child.stdinFD >= 0
       THEN /\ fdt' = CloseFd(fdt, child.stdinFD)
            /\ child' = [child EXCEPT !.stdinFD = FdAfterClose(child.stdinFD)]
            /\ lastSys' = "close"
       ELSE /\ UNCHANGED <<fdt, child>>
            /\ lastSys' = "none"
    /\ Advance("child", "close_stdin")
    /\ UNCHANGED <<surfaceVars, mach, pollI, proc, killed, rx, sent, ipcVars, uiVars,
                   lastCall, extVars>>

\* One turn of the loop: waitpid(childPid, &status, WNOHANG), then usleep(10000).
ChildPoll ==
    /\ At("child", "poll")
    /\ IF child.pid <= 0
       THEN /\ lastSys' = "none"
            /\ Advance("child", "reap")
            /\ UNCHANGED <<child, proc, pollI>>
       ELSE /\ lastSys' = "waitpid"
            /\ IF WaitpidNoHang(proc, child.pid) # 0
               THEN /\ proc' = Reap(proc, child.pid)
                    /\ child' = [child EXCEPT !.pid = 0]
                    /\ pollI' = 0
                    /\ Advance("child", "reap")
               ELSE /\ UNCHANGED <<proc, child>>
                    /\ pollI' = pollI + 1
                    /\ todo' = todo
                    /\ step' = IF pollI + 1 < GracePolls THEN "poll" ELSE "kill"
    /\ UNCHANGED <<surfaceVars, mach, killed, fdt, rx, sent, ipcVars, uiVars, lastCall, extVars>>

\* kill(childPid, SIGKILL)
ChildKill ==
    /\ At("child", "kill")
    /\ killed' = killed \cup {child.pid}
    /\ lastSys' = "kill"
    /\ todo' = todo
    /\ step' = StepAfterKill
    /\ UNCHANGED <<surfaceVars, mach, child, pollI, proc, fdt, rx, sent, ipcVars,
                   uiVars, lastCall, extVars>>

\* waitpid(childPid, &status, 0): blocks while the child runs.
ChildWait ==
    /\ At("child", "wait")
    /\ WaitpidNoHang(proc, child.pid) # 0
    /\ proc' = Reap(proc, child.pid)
    /\ child' = [child EXCEPT !.pid = 0]
    /\ pollI' = 0
    /\ lastSys' = "waitpid"
    /\ Advance("child", "reap")
    /\ UNCHANGED <<surfaceVars, mach, killed, fdt, rx, sent, ipcVars, uiVars, lastCall, extVars>>

ChildCloseStdout ==
    /\ At("child", "close_stdout")
    /\ IF child.stdoutFD >= 0
       THEN /\ fdt' = CloseFd(fdt, child.stdoutFD)
            /\ child' = [child EXCEPT !.stdoutFD = FdAfterClose(child.stdoutFD)]
            /\ lastSys' = "close"
       ELSE /\ UNCHANGED <<fdt, child>>
            /\ lastSys' = "none"
    /\ Advance("child", "close_stdout")
    /\ UNCHANGED <<surfaceVars, mach, pollI, proc, killed, rx, sent, ipcVars, uiVars,
                   lastCall, extVars>>

ChildStopStep ==
    \/ ChildCloseStdin
    \/ ChildPoll
    \/ ChildKill
    \/ ChildWait
    \/ ChildCloseStdout

\* ------------------------------------------------------------------ Ipc::stop
IpcClear ==
    /\ At("ipc", "clear")
    /\ ipc' = [ipc EXCEPT !.running = FALSE]
    /\ lastSys' = "none"
    /\ Advance("ipc", "clear")
    /\ UNCHANGED <<surfaceVars, mach, childVars, fdt, rx, sent, readerPc, rdBuf,
                   uiVars, lastCall, extVars>>

\* if (readerThread.joinable()) readerThread.join();
IpcJoin ==
    /\ At("ipc", "join")
    /\ readerPc \in {"none", "exited"}
    /\ readerPc' = "none"
    /\ lastSys' = "none"
    /\ Advance("ipc", "join")
    /\ UNCHANGED <<surfaceVars, mach, childVars, fdt, rx, sent, ipc, rdBuf, uiVars,
                   lastCall, extVars>>

IpcClose ==
    /\ At("ipc", "close")
    /\ IF ipc.socketFD >= 0
       THEN /\ fdt' = CloseFd(fdt, ipc.socketFD)
            /\ ipc' = [ipc EXCEPT !.socketFD = -1]
            /\ lastSys' = "close"
       ELSE /\ UNCHANGED <<fdt, ipc>>
            /\ lastSys' = "none"
    /\ Advance("ipc", "close")
    /\ UNCHANGED <<surfaceVars, mach, childVars, rx, sent, readerPc, rdBuf, uiVars,
                   lastCall, extVars>>

IpcStopStep ==
    \/ IpcClear
    \/ IpcJoin
    \/ IpcClose

\* ------------------------------------ ComposeProvider::stop, view and surface
ViewDestroy ==
    /\ At("view", "destroy")
    /\ view' = NoView
    /\ lastSys' = "none"
    /\ Advance("view", "destroy")
    /\ UNCHANGED <<surface, live, pushed, mach, childVars, fdt, rx, sent,
                   ipcVars, uiVars, lastCall, extVars>>

SurfaceReleaseStep ==
    /\ At("surface", "release")
    /\ surface' = SurfaceRelease(surface)
    /\ live' = live \ SurfaceIds(surface)
    /\ surfaceOps' = Counted(surfaceOps, 0, Cardinality(Released(surface, surface')), 0)
    /\ lastSys' = "none"
    /\ Advance("surface", "release")
    /\ UNCHANGED <<pushed, view, mach, childVars, fdt, rx, sent, ipcVars,
                   uiVars, lastCall, rxVars, tx, calls, auxVars>>

ProviderStopStep ==
    \/ MachDestroy
    \/ MachJoin
    \/ ViewDestroy
    \/ SurfaceReleaseStep

\* ------------------------------------------------------- Ipc: reader thread
\* A read loop that does not look at the running flag.
ReadFullyIgnoresFlag(totalRead, size, running) == totalRead < size

\* A readFully that returns after its first read, whatever it got.
ReadFullyOnce(totalRead, size, running) == totalRead = 0 /\ totalRead < size /\ running

\* Ipc::readFully: the loop condition.
ReadFullyContinues(totalRead, size, running) == totalRead < size /\ running

\* The number of bytes the reader asks readFully for at each position.
ReadSize(pc) ==
    CASE pc = "juce_size" -> 4
      [] pc \in {"juce_data", "midi_data"} -> rdLen
      [] OTHER -> 1

Min(a, b) == IF a < b THEN a ELSE b

\* while (running.load()) in Ipc::readerLoop
ReaderLoop ==
    /\ readerPc = "loop"
    /\ readerPc' = IF ipc.running THEN "tag" ELSE "exited"
    /\ rdBuf' = <<>>
    /\ UNCHANGED <<surfaceVars, mach, childVars, fdt, rx, sent, ipc, uiVars, todo,
                   step, lastSys, lastCall, extVars>>

\* A reader for which the CMP tag is the whole message.
TagTargetNoSubtype(tag) ==
    CASE tag = EVENT_TYPE_JUCE -> "juce_size"
      [] tag = EVENT_TYPE_MIDI /\ rxClass = "Ipc" -> "midi_size"
      [] OTHER -> "loop"

\* readerLoop's switch on the type tag (EventReceiver has no MIDI case).
TagTarget(tag) ==
    CASE tag = EVENT_TYPE_CMP -> "cmp_sub"
      [] tag = EVENT_TYPE_JUCE -> "juce_size"
      [] tag = EVENT_TYPE_MIDI /\ rxClass = "Ipc" -> "midi_size"
      [] OTHER -> "loop"

\* The reader goes to position pc, holding length header len, having posted what
\* post says ([asyncQ, invoked]).
ReaderGoes(pc, len, post) ==
    /\ readerPc' = pc
    /\ rdLen' = len
    /\ asyncQ' = post.asyncQ
    /\ invoked' = post.invoked

NoPost == [asyncQ |-> asyncQ, invoked |-> invoked]

\* A valid tree has been read: Ipc::handleJuceEvent posts it; EventReceiver::enqueue
\* stores it under its key and posts a dispatch only if the key was not pending.
HandleTree(tree) ==
    IF ~ipc.onEvent
    THEN ReaderGoes("loop", 0, NoPost) /\ UNCHANGED <<pendingTrees, rdKey>>
    ELSE IF rxClass = "Ipc"
    THEN /\ ReaderGoes("loop", 0, CallAsync(asyncQ, invoked, Callback("event", tree, "")))
         /\ UNCHANGED <<pendingTrees, rdKey>>
    ELSE LET key == TreeKey(Trees[tree])
             wasEmpty == pendingTrees[key] = 0
         IN  /\ pendingTrees' = [pendingTrees EXCEPT ![key] = tree]
             /\ rdKey' = IF wasEmpty THEN key ELSE ""
             /\ ReaderGoes(IF wasEmpty THEN "post" ELSE "loop", 0, NoPost)

\* readFully has returned r with buf read: what readerLoop or the handler does next.
ReaderReturn(r, buf) ==
    /\ rdBuf' = <<>>
    /\ CASE readerPc = "tag" ->
              /\ ReaderGoes(IF r # 1 THEN "exited" ELSE TagTarget(buf[1]), 0, NoPost)
              /\ UNCHANGED <<pendingTrees, rdKey>>
         [] readerPc = "cmp_sub" ->
              /\ ReaderGoes("loop", 0,
                     IF r = 1 /\ buf[1] = CMP_SUBTYPE_FIRST_FRAME /\ ipc.onFrameReady
                     THEN CallAsync(asyncQ, invoked, Callback("frameReady", 0, ""))
                     ELSE NoPost)
              /\ UNCHANGED <<pendingTrees, rdKey>>
         [] readerPc = "juce_size" ->
              /\ IF r # 4 THEN ReaderGoes("loop", 0, NoPost)
                 ELSE IF Le32(buf) = 0 \/ Le32(buf) > MaxGenericSize
                 THEN ReaderGoes("loop", 0, NoPost)
                 ELSE ReaderGoes("juce_data", Le32(buf), NoPost)
              /\ UNCHANGED <<pendingTrees, rdKey>>
         [] readerPc = "juce_data" ->
              IF r = rdLen /\ TreeIsValid(ReadFromData(buf))
              THEN HandleTree(ReadFromData(buf))
              ELSE ReaderGoes("loop", 0, NoPost) /\ UNCHANGED <<pendingTrees, rdKey>>
         [] readerPc = "midi_size" ->
              /\ IF r # 1 \/ buf[1] = 0 \/ buf[1] > MaxMidiSize
                 THEN ReaderGoes("loop", 0, NoPost)
                 ELSE ReaderGoes("midi_data", buf[1], NoPost)
              /\ UNCHANGED <<pendingTrees, rdKey>>
         [] readerPc = "midi_data" ->
              /\ ReaderGoes("loop", 0,
                     IF r = rdLen /\ ipc.onMidi
                     THEN CallAsync(asyncQ, invoked, Callback("midi", buf[1], ""))
                     ELSE NoPost)
              /\ UNCHANGED <<pendingTrees, rdKey>>

ReaderPositions == {"tag", "cmp_sub", "juce_size", "juce_data", "midi_size", "midi_data"}

\* One turn of readFully's loop: poll(&pfd, 1, 100), then read. A poll that times
\* out changes nothing and is not a step.
ReaderRead ==
    /\ readerPc \in ReaderPositions
    /\ LET fd == ipc.socketFD
           size == ReadSize(readerPc)
           total == Len(rdBuf)
       IN  IF ~ReadFullyContinues(total, size, ipc.running)
           THEN ReaderReturn(total, rdBuf) /\ rx' = rx
           ELSE IF fd < 0 THEN FALSE
           ELSE IF ~IsOpen(fdt, fd)
           THEN ReaderReturn(IF total > 0 THEN total ELSE -1, rdBuf) /\ rx' = rx
           ELSE IF fdt[fd].kind # "out_r" THEN FALSE
           ELSE IF rx[fdt[fd].pid] # <<>>
           THEN \E n \in 1..Min(size - total, Len(rx[fdt[fd].pid])) :
                  LET p == fdt[fd].pid
                      buf == rdBuf \o SubSeq(rx[p], 1, n)
                  IN  /\ rx' = [rx EXCEPT ![p] = SubSeq(rx[p], n + 1, Len(rx[p]))]
                      /\ IF Len(buf) = size
                         THEN ReaderReturn(size, buf)
                         ELSE /\ rdBuf' = buf
                              /\ UNCHANGED <<readerPc, asyncQ, invoked, rdLen,
                                             pendingTrees, rdKey>>
           ELSE IF proc[fdt[fd].pid] # "running"
           THEN ReaderReturn(IF total > 0 THEN total ELSE 0, rdBuf) /\ rx' = rx
           ELSE FALSE
    /\ UNCHANGED <<surfaceVars, mach, childVars, fdt, sent, ipc, launched_,
                   firstFrameReceived_, destroyed, todo, step, lastSys, lastCall,
                   rxClass, wire, sendVars, auxVars>>

\* EventReceiver::enqueue, after the lock is released: callAsync of the dispatch
\* for the key just stored.
ReaderPost ==
    /\ readerPc = "post"
    /\ rdKey' = ""
    /\ ReaderGoes("loop", 0, CallAsync(asyncQ, invoked, Callback("pending", 0, rdKey)))
    /\ UNCHANGED <<surfaceVars, mach, childVars, fdt, rx, sent, ipc, rdBuf, launched_,
                   firstFrameReceived_, destroyed, todo, step, lastSys, lastCall,
                   rxClass, pendingTrees, wire, sendVars, auxVars>>

ReaderStep ==
    \/ ReaderLoop
    \/ ReaderRead

\* -------------------------------------------------- the Mach handshake thread
\* waitForClient() returned true: sendSurfacePort() pushes the current surface.
MachClientConnects ==
    /\ mach.thread = "waiting"
    /\ mach.server
    /\ \E p \in Pids : proc[p] = "running"
    /\ mach' = [mach EXCEPT !.thread = "done", !.client = TRUE]
    /\ pushed' = IF SurfaceIsValid(surface) THEN surface.cur ELSE pushed
    /\ UNCHANGED <<surface, live, view, childVars, fdt, rx, sent, ipcVars,
                   uiVars, todo, step, lastSys, lastCall, extVars>>

\* waitForClient() returned false (no client in time, or the server is gone).
MachWaitFails ==
    /\ mach.thread = "waiting"
    /\ mach' = [mach EXCEPT !.thread = "done"]
    /\ UNCHANGED <<surfaceVars, childVars, fdt, rx, sent, ipcVars, uiVars, todo, step,
                   lastSys, lastCall, extVars>>

MachStep ==
    \/ MachClientConnects
    \/ MachWaitFails

\* ------------------------------------------ callbacks on the owning thread
\* A callback posted by handleCmpEvent runs: if (onFrameReady) onFrameReady().
\* Once the channel is destroyed the callback's captured this dangles, and whether
\* the handler still runs is not defined.
Dispatch ==
    /\ step = "idle"
    /\ asyncQ # <<>>
    /\ asyncQ' = Tail(asyncQ)
    /\ LET c == Head(asyncQ)
           handlerSet == CASE c.cb = "frameReady" -> ipc.onFrameReady
                           [] c.cb = "midi" -> ipc.onMidi
                           [] OTHER -> ipc.onEvent
           tree == IF c.cb = "pending" THEN pendingTrees[c.key] ELSE c.tree
           call == IF c.cb = "pending" THEN Callback("event", tree, "") ELSE c
       IN  \E runs \in IF destroyed THEN BOOLEAN ELSE {handlerSet} :
             /\ pendingTrees' = IF c.cb = "pending"
                                THEN [pendingTrees EXCEPT ![c.key] = 0]
                                ELSE pendingTrees
             /\ invoked' = IF runs /\ (c.cb = "pending" => TreeIsValid(tree))
                           THEN Append(invoked, call)
                           ELSE invoked
             /\ firstFrameReceived_' = (firstFrameReceived_ \/ (runs /\ c.cb = "frameReady"))
    /\ UNCHANGED <<surfaceVars, mach, childVars, fdt, rx, sent, ipcVars, launched_,
                   destroyed, todo, step, lastSys, lastCall, rxClass, rdLen, rdKey,
                   wire, sendVars, auxVars>>

\* ------------------------------------------------------------ the UI process
\* What a child writes: frame-ready, a CMP event of another subtype, or a message
\* whose type the host's reader does not handle.
ChildMessages ==
    { <<EVENT_TYPE_CMP, CMP_SUBTYPE_FIRST_FRAME>>,
      <<EVENT_TYPE_CMP, EVENT_TYPE_CMP>>,
      <<EVENT_TYPE_SURFACE_ID>> }

ChildSend ==
    \E p \in Pids, m \in ChildMessages :
        /\ proc[p] = "running"
        /\ sent[p] < MaxSend
        /\ rx' = [rx EXCEPT ![p] = rx[p] \o m]
        /\ sent' = [sent EXCEPT ![p] = sent[p] + 1]
        /\ UNCHANGED <<surfaceVars, mach, childVars, fdt, ipcVars, uiVars, todo, step,
                       lastSys, lastCall, extVars>>

\* The child exits on its own: end of input seen, exec failed, or a crash.
ChildExit ==
    \E p \in Pids :
        /\ proc[p] = "running"
        /\ p \notin killed
        /\ proc' = [proc EXCEPT ![p] = "zombie"]
        /\ UNCHANGED <<surfaceVars, mach, child, pollI, killed, fdt, rx, sent, ipcVars,
                       uiVars, todo, step, lastSys, lastCall, extVars>>

\* SIGKILL takes effect.
KillDelivered ==
    \E p \in Pids :
        /\ proc[p] = "running"
        /\ p \in killed
        /\ proc' = [proc EXCEPT ![p] = "zombie"]
        /\ UNCHANGED <<surfaceVars, mach, child, pollI, killed, fdt, rx, sent, ipcVars,
                       uiVars, todo, step, lastSys, lastCall, extVars>>

ChildEnv ==
    \/ ChildSend
    \/ ChildExit
    \/ KillDelivered

\* ----------------------------------------------------------- specification
Next ==
    \/ TryLaunch
    \/ Destroy
    \/ ProviderStopStep
    \/ ChildStopStep
    \/ IpcStopStep
    \/ ReaderStep
    \/ MachStep
    \/ Dispatch
    \/ ChildEnv

Spec == Init /\ [][Next]_vars

\* The owning thread keeps running, the reader thread and the Mach thread are
\* scheduled, and a SIGKILL is delivered.
Fairness ==
    /\ WF_vars(ProviderStopStep)
    /\ WF_vars(ChildStopStep)
    /\ WF_vars(IpcStopStep)
    /\ WF_vars(ReaderStep)
    /\ WF_vars(MachStep)
    /\ WF_vars(KillDelivered)

FairSpec == Spec /\ Fairness

\* ------------------------------------- ChildProcess and Ipc used on their own
\* (both are public classes of the juce_cmp module)
NoLiveChild == \A p \in Pids : proc[p] \notin {"running", "zombie"}

\* child.launch(...) on a ChildProcess that has no child at the moment.
ChildLaunchWith(exes) ==
    /\ step = "idle"
    /\ NoLiveChild
    /\ \E exe \in exes, fault \in {"none", "pipe1", "pipe2", "fork"} :
         LET cl == ChildLaunch(child, fdt, proc, exe, fault)
         IN  /\ child' = cl.child
             /\ fdt' = cl.fdt
             /\ proc' = cl.proc
             /\ lastCall' = [op |-> "child.launch", ok |-> cl.ok, exe |-> exe,
                             fault |-> fault]
    /\ lastSys' = "none"
    /\ UNCHANGED <<surfaceVars, mach, pollI, killed, rx, sent, ipcVars, uiVars, todo,
                   step, extVars>>

ChildLaunchCall == ChildLaunchWith({"present", "missing"})

\* launch() on a path that names a regular file without execute permission:
\* the parent forks, and execl fails in the forked child, which calls _exit(1).
ChildLaunchNotExecutable == ChildLaunchWith({"not_executable"})

\* ipc.setSocketFD(child.getSocketFD()); ipc.setFrameReadyHandler(...);
\* ipc.startReceiving(); on an Ipc whose reader thread is not joinable.
IpcStartCall ==
    /\ step = "idle"
    /\ readerPc = "none"
    /\ LET i1 == [SetSocketFD(ipc, GetSocketFD(child)) EXCEPT !.onFrameReady = TRUE]
       IN  /\ ipc' = StartReceiving(i1)
           /\ readerPc' = IF StartsThread(i1) THEN "loop" ELSE readerPc
    /\ lastSys' = "none"
    /\ lastCall' = [op |-> "ipc.start", ok |-> TRUE, exe |-> "present", fault |-> "none"]
    /\ UNCHANGED <<surfaceVars, mach, childVars, fdt, rx, sent, rdBuf, uiVars, todo,
                   step, extVars>>

\* child.stop()
ChildStopCall ==
    /\ step = "idle"
    /\ todo' = <<"child">>
    /\ step' = FirstStep("child")
    /\ lastSys' = "none"
    /\ lastCall' = [op |-> "child.stop", ok |-> TRUE, exe |-> "present", fault |-> "none"]
    /\ UNCHANGED <<surfaceVars, mach, childVars, fdt, rx, sent, ipcVars, uiVars, extVars>>

\* ipc.stop()
IpcStopCall ==
    /\ step = "idle"
    /\ todo' = <<"ipc">>
    /\ step' = FirstStep("ipc")
    /\ lastSys' = "none"
    /\ lastCall' = [op |-> "ipc.stop", ok |-> TRUE, exe |-> "present", fault |-> "none"]
    /\ UNCHANGED <<surfaceVars, mach, childVars, fdt, rx, sent, ipcVars, uiVars, extVars>>

\* ChildProcess on its own: launch, stop, and the child's own life.
ChildNext ==
    \/ ChildLaunchCall
    \/ ChildStopCall
    \/ ChildStopStep
    \/ ChildExit
    \/ KillDelivered

SpecChild == Init /\ [][ChildNext]_vars

\* The child life cycle with every kind of executable path.
ExecNext ==
    \/ ChildNext
    \/ ChildLaunchNotExecutable

SpecExec == Init /\ [][ExecNext]_vars

FairSpecChild == SpecChild /\ WF_vars(ChildStopStep) /\ WF_vars(KillDelivered)

\* Ipc on its own, attached to the endpoint of a child that is never stopped.
IpcNext ==
    \/ ChildLaunchCall
    \/ IpcStartCall
    \/ IpcStopCall
    \/ IpcStopStep
    \/ ReaderStep
    \/ Dispatch
    \/ ChildSend
    \/ ChildExit

SpecIpc == Init /\ [][IpcNext]_vars

FairSpecIpc == SpecIpc /\ WF_vars(IpcStopStep) /\ WF_vars(ReaderStep)

\* ------------------------------------------- receiving: Ipc and EventReceiver
\* What the UI writes to a receiver: frame-ready, ValueTrees and a MIDI message.
InboundMessages ==
    {FrameReadyMsg, MidiMsg(<<9>>)} \cup {GenericMsg(WriteToStream(c)) : c \in TreeCodes}

ChildWrite ==
    \E p \in Pids, m \in InboundMessages :
        /\ proc[p] = "running"
        /\ sent[p] < MaxWrite
        /\ rx' = [rx EXCEPT ![p] = rx[p] \o m]
        /\ sent' = [sent EXCEPT ![p] = sent[p] + 1]
        /\ wire' = Append(wire, m)
        /\ UNCHANGED <<surfaceVars, mach, childVars, fdt, ipcVars, uiVars, todo, step,
                       lastSys, lastCall, rxClass, rdLen, pendingTrees, rdKey, sendVars, auxVars>>

\* A receiver of either class is given its handlers and started on the endpoint:
\* ipc.setSocketFD(fd), ipc.startReceiving(), or eventReceiver.start(fd).
ReceiverStartCall ==
    /\ step = "idle"
    /\ readerPc = "none"
    /\ \E cls \in {"Ipc", "EventReceiver"} :
         LET i1 == [SetSocketFD(ipc, GetSocketFD(child)) EXCEPT
                        !.onFrameReady = TRUE, !.onEvent = TRUE, !.onMidi = (cls = "Ipc")]
         IN  /\ rxClass' = cls
             /\ ipc' = StartReceiving(i1)
             /\ readerPc' = IF StartsThread(i1) THEN "loop" ELSE readerPc
    /\ lastSys' = "none"
    /\ lastCall' = [op |-> "receiver.start", ok |-> TRUE, exe |-> "present",
                    fault |-> "none"]
    /\ UNCHANGED <<surfaceVars, mach, childVars, fdt, rx, sent, rdBuf, uiVars, todo,
                   step, rdLen, pendingTrees, rdKey, wire, sendVars, auxVars>>

RecvNext ==
    \/ ChildLaunchCall
    \/ ReceiverStartCall
    \/ ReaderStep
    \/ ReaderPost
    \/ Dispatch
    \/ ChildWrite
    \/ ChildExit

SpecRecv == Init /\ [][RecvNext]_vars

\* The serialisation of a larger tree: its first byte alone reads as a tree.
LongPayload == <<Lowest(TreeCodes), Lowest(TreeCodes)>>

\* Messages a child may be cut off in: those it writes whole, a Generic message
\* with the longer payload, and a MIDI message of two data bytes.
CutMessages == InboundMessages \cup {GenericMsg(LongPayload), MidiMsg(LongPayload)}

\* The child dies in the middle of a message: after at most one whole message,
\* a proper prefix of the next reaches the stream, and the child's end of the
\* channel is closed by its exit.
ChildWriteCut ==
    \E p \in Pids, whole \in {<<>>} \cup InboundMessages, m \in CutMessages :
        \E n \in 1..(Len(m) - 1) :
            /\ proc[p] = "running"
            /\ p \notin killed
            /\ sent[p] < MaxWrite
            /\ rx' = [rx EXCEPT ![p] = rx[p] \o whole \o SubSeq(m, 1, n)]
            /\ sent' = [sent EXCEPT ![p] = sent[p] + 1]
            /\ wire' = IF whole = <<>> THEN Append(wire, SubSeq(m, 1, n))
                       ELSE wire \o <<whole, SubSeq(m, 1, n)>>
            /\ proc' = [proc EXCEPT ![p] = "zombie"]
            /\ UNCHANGED <<surfaceVars, mach, child, pollI, killed, fdt, ipcVars, uiVars,
                           todo, step, lastSys, lastCall, rxClass, rdLen, pendingTrees,
                           rdKey, sendVars, auxVars>>

\* A receiver reading a stream that can end, or be stopped, inside a message.
CutNext ==
    \/ ChildLaunchCall
    \/ ReceiverStartCall
    \/ ReaderStep
    \/ ReaderPost
    \/ Dispatch
    \/ ChildWriteCut
    \/ IpcStopCall
    \/ IpcStopStep

SpecCut == Init /\ [][CutNext]_vars

\* The start of a Generic message whose length header exceeds the bound: the tag,
\* the header, and the first bytes of the payload that follows it on the stream.
OversizeMsg(payload) == <<EVENT_TYPE_JUCE>> \o Le32Bytes(MaxGenericSize + 1) \o payload

\* Payloads whose first bytes happen to read as a message of their own.
OversizePayloads == {FrameReadyMsg}

ChildWriteOversize ==
    \E p \in Pids, payload \in OversizePayloads :
        /\ proc[p] = "running"
        /\ sent[p] < MaxWrite
        /\ rx' = [rx EXCEPT ![p] = rx[p] \o OversizeMsg(payload)]
        /\ sent' = [sent EXCEPT ![p] = sent[p] + 1]
        /\ wire' = Append(wire, OversizeMsg(payload))
        /\ UNCHANGED <<surfaceVars, mach, childVars, fdt, ipcVars, uiVars, todo, step,
                       lastSys, lastCall, rxClass, rdLen, pendingTrees, rdKey, sendVars, auxVars>>

\* A receiver of either class whose peer may violate the length bound.
OversizeNext ==
    \/ RecvNext
    \/ ChildWriteOversize

SpecOversize == Init /\ [][OversizeNext]_vars

FairSpecRecv == SpecRecv /\ WF_vars(ReaderStep) /\ WF_vars(ReaderPost) /\ WF_vars(Dispatch)

\* --------------------------------- ComposeProvider used through its own API
\* provider.launch(...), whenever the caller likes.
ProviderLaunchCall ==
    /\ step = "idle"
    /\ surfaceOps.launchCalls < MaxLaunch
    /\ \E exe \in {"present", "missing"}, fault \in Faults : ProviderLaunch(exe, fault)

\* The arguments of a resize and the provider's scale_ at the time.
ResizeRequests ==
    { [width |-> 0, height |-> 200, scale |-> 2],
      [width |-> 300, height |-> 200, scale |-> 2] }

\* A resize that drops every surface it holds and creates a new one.
ResizeSurfaceByRecreate(s, id) == SurfaceCreate(SurfaceRelease(s), id)

\* surface_.resize(pixelW, pixelH), when it succeeds
ResizeSurface(s, id) == SurfaceResize(s, id)

\* if (width <= 0 || height <= 0) return; if (surface_.resize(pixelW, pixelH)) ...
ResizeProceeds(req, fault) == req.width > 0 /\ req.height > 0 /\ fault = "none"

\* machPortIPC_.sendPort: reaches the child when the client has connected.
SendPortSucceeds(m) == m.server /\ m.client

\* ComposeProvider::resize
ProviderResize(req, fault) ==
    LET proceeds == ResizeProceeds(req, fault)
        id == NewSurfaceId(live)
        s2 == ResizeSurface(surface, id)
        e == ResizeEvent(req.width * req.scale, req.height * req.scale, req.scale * 100)
        ops == [surfaceOps EXCEPT !.resizeCalls = @ + 1,
                                   !.valid = @ /\ surfaceOps.phase = "running"]
    IN  /\ lastCall' = [op |-> "resize", ok |-> proceeds, exe |-> "present",
                        fault |-> fault]
        /\ IF proceeds
           THEN \E out \in SendOutcomes(rxClass, ipc, InputParts(e), fdt, proc) :
                  /\ surface' = s2
                  /\ live' = (live \cup {id}) \ Released(surface, s2)
                  /\ surfaceOps' = Counted(ops, 1, Cardinality(Released(surface, s2)), 1)
                  /\ tx' = TxAfter(tx, fdt, ipc.socketFD, out)
                  /\ ipc' = IpcAfterSend(ipc, out)
                  /\ calls' = Append(calls, [op |-> "resize", parts |-> InputParts(e),
                                             open |-> ipc.socketFD >= 0, at |-> now])
                  /\ pushed' = IF SendPortSucceeds(mach) THEN id ELSE pushed
                  /\ view' = [view EXCEPT !.pending = id]
           ELSE /\ surfaceOps' = ops
                /\ UNCHANGED <<surface, live, tx, ipc, calls, pushed, view>>
        /\ UNCHANGED <<mach, childVars, fdt, rx, sent, readerPc, rdBuf, uiVars, todo,
                       step, lastSys, rxVars, auxVars>>

\* provider.resize(width, height), whenever the caller likes.
ProviderResizeCall ==
    /\ step = "idle"
    /\ surfaceOps.resizeCalls < MaxResize
    /\ \E req \in ResizeRequests, fault \in {"none", "surface"} : ProviderResize(req, fault)

\* The input events and trees the host sends.
InputEvents == {MouseMoveEvent(10, 20, 0)}

OutboundTrees == {Lowest(TreeCodes)}

SendCalls == {c \in 1..Len(calls) : calls[c].op # "resize"}

\* One send call on the channel: Ipc::sendInput or Ipc::sendEvent.
IpcSend(op, parts) ==
    \E out \in SendOutcomes(rxClass, ipc, parts, fdt, proc) :
        /\ tx' = TxAfter(tx, fdt, ipc.socketFD, out)
        /\ ipc' = IpcAfterSend(ipc, out)
        /\ calls' = Append(calls, [op |-> op, parts |-> parts,
                                   open |-> ipc.socketFD >= 0, at |-> now])
        /\ lastCall' = [op |-> op, ok |-> out.ok, exe |-> "present", fault |-> "none"]
        /\ UNCHANGED <<surfaceVars, mach, childVars, fdt, rx, sent, readerPc, rdBuf,
                       uiVars, todo, step, lastSys, rxVars, surfaceOps, auxVars>>

\* InputSender::getTimestampMs: the clock, less its value when the descriptor was
\* set (a uint32_t; the clock stays far below its range here).
GetTimestampMs == now

\* ComposeProvider::sendInput; InputSender::sendInputEvent stamps the event first.
SendInputCall ==
    /\ step = "idle"
    /\ Cardinality(SendCalls) < MaxCalls
    /\ \E e \in InputEvents :
         IF rxClass = "Ipc"
         THEN IpcSend("sendInput", InputParts(e))
         ELSE IpcSend("sendInput", InputParts([e EXCEPT !.timestamp = GetTimestampMs]))

\* InputSender::sendResize(width, height, scale, newSurfaceID)
SenderResizeCall ==
    /\ step = "idle"
    /\ rxClass = "EventReceiver"
    /\ Cardinality(SendCalls) < MaxCalls
    /\ \E req \in ResizeRequests, id \in {Lowest(SurfaceHandles)} :
         IpcSend("sendResize",
                 InputParts([ResizeEvent(req.width, req.height, req.scale * 100)
                                EXCEPT !.timestamp = id]))

\* A millisecond passes.
Tick ==
    /\ now < MaxClock
    /\ now' = now + 1
    /\ UNCHANGED <<surfaceVars, mach, childVars, fdt, rx, sent, ipcVars, uiVars, todo,
                   step, lastSys, lastCall, rxVars, sendVars, codec, lockVars, wr, tailVars>>

\* ComposeProvider::sendEvent
SendEventCall ==
    /\ step = "idle"
    /\ Cardinality(SendCalls) < MaxCalls
    /\ \E c \in OutboundTrees : IpcSend("sendEvent", GenericParts(c))

\* ComposeComponent::resized on a component that has launched its provider (before
\* that, resized() is tryLaunch(), see TryLaunch).
Resized ==
    /\ step = "idle" /\ ~destroyed
    /\ launched_
    /\ surfaceOps.resizeCalls < MaxResize
    /\ \E req \in ResizeRequests, fault \in {"none", "surface"} : ProviderResize(req, fault)

\* The provider driven by any caller: launch and resize in any order.
ProviderNext ==
    \/ ProviderLaunchCall
    \/ ProviderResizeCall
    \/ MachStep
    \/ ChildExit

SpecProvider == Init /\ [][ProviderNext]_vars

\* A component that is shown, resized and destroyed.
ResizeNext ==
    \/ TryLaunch
    \/ Resized
    \/ Destroy
    \/ ProviderStopStep
    \/ ChildStopStep
    \/ IpcStopStep
    \/ ReaderStep
    \/ MachStep
    \/ ChildExit
    \/ KillDelivered

SpecResize == Init /\ [][ResizeNext]_vars

\* A started provider that is sent input events and trees and is resized.
SendNext ==
    \/ TryLaunch
    \/ SendInputCall
    \/ SendEventCall
    \/ ProviderResizeCall
    \/ MachStep
    \/ ChildExit

SpecSend == Init /\ [][SendNext]_vars

\* A sender of either class on the endpoint of a child that is never stopped.
SenderNext ==
    \/ ChildLaunchCall
    \/ ReceiverStartCall
    \/ SendInputCall
    \/ SendEventCall
    \/ ChildExit

SpecSender == Init /\ [][SenderNext]_vars

\* A channel that is read by its receiver thread while the owning thread sends
\* on it and stops it.
ShareNext ==
    \/ ChildLaunchCall
    \/ ReceiverStartCall
    \/ IpcStopCall
    \/ IpcStopStep
    \/ ReaderStep
    \/ SendInputCall
    \/ ChildExit

SpecShare == Init /\ [][ShareNext]_vars

\* Input events sent on a channel of either class while time passes.
ClockNext ==
    \/ ChildLaunchCall
    \/ ReceiverStartCall
    \/ SendInputCall
    \/ SenderResizeCall
    \/ Tick

SpecClock == Init /\ [][ClockNext]_vars

\* ------------------------------------------- an InputEvent through the wire format
\* The arguments the editor's callbacks hand to the factories: positions inside,
\* left of, and far outside the component, keys with and without a codepoint
\* above 16 bits, scroll deltas that fit and one that does not.
Positions == {-1, 10, 40000}
Modifiers == {0, 257}
KeyCodes == {65}
Codepoints == {97, 128512}
ScrollDeltas == {-5000, 40000}
Scales100 == {100, 200}

FactoryEvents ==
    {MouseMoveEvent(x, y, m) : x \in Positions, y \in Positions, m \in Modifiers}
    \cup {MouseButtonEvent(x, 20, INPUT_BUTTON_LEFT, pressed, m) :
             x \in Positions, pressed \in BOOLEAN, m \in Modifiers}
    \cup UNION {{MouseScrollEvent(10, y, d1, d2, 0) :
                   d1 \in FloatToInt16(0), d2 \in FloatToInt16(d)} :
               y \in Positions, d \in ScrollDeltas}
    \cup {KeyEvent(k, c, pressed, m) :
             k \in KeyCodes, c \in Codepoints, pressed \in BOOLEAN, m \in Modifiers}
    \cup {FocusEvent(f) : f \in BOOLEAN}
    \cup {ResizeEvent(w, 200, sc) : w \in Positions, sc \in Scales100}

\* InputEventFactory::...(...)
MakeEvent ==
    /\ codec.pc = "idle"
    /\ \E e \in FactoryEvents : codec' = [codec EXCEPT !.pc = "made", !.event = e]
    /\ UNCHANGED <<surfaceVars, mach, childVars, fdt, rx, sent, ipcVars, uiVars, todo,
                   step, lastSys, lastCall, rxVars, sendVars, now, lockVars, wr, tailVars>>

\* sendInput: writeNonBlocking(&event, sizeof(InputEvent)) takes the record's bytes.
EncodeEvent ==
    /\ codec.pc = "made"
    /\ codec' = [codec EXCEPT !.pc = "encoded", !.bytes = EventBytes(codec.event)]
    /\ UNCHANGED <<surfaceVars, mach, childVars, fdt, rx, sent, ipcVars, uiVars, todo,
                   step, lastSys, lastCall, rxVars, sendVars, now, lockVars, wr, tailVars>>

\* The UI reads the record.
DecodeEvent ==
    /\ codec.pc = "encoded"
    /\ codec' = [codec EXCEPT !.pc = "decoded", !.decoded = EventFromBytes(codec.bytes)]
    /\ UNCHANGED <<surfaceVars, mach, childVars, fdt, rx, sent, ipcVars, uiVars, todo,
                   step, lastSys, lastCall, rxVars, sendVars, now, lockVars, wr, tailVars>>

CodecNext ==
    \/ MakeEvent
    \/ EncodeEvent
    \/ DecodeEvent

SpecCodec == Init /\ [][CodecNext]_vars

\* ------------------------------ EventReceiver::enqueue, one statement at a time
\* What the actions of enqueue and of its posted dispatch leave alone.
lockFrame == <<surfaceVars, mach, childVars, fdt, rx, sent, ipcVars, launched_,
               firstFrameReceived_, destroyed, todo, step, lastSys, lastCall,
               rxClass, rdLen, rdKey, wire, sendVars, now, codec, wr,
               tailVars>>

\* A dispatch whose lock_guard outlives the block it is declared in.
LockedTakeKeepsLock(pending, key) ==
    [tree |-> pending[key], pending |-> [pending EXCEPT ![key] = 0], mutex |-> "owner"]

\* An enqueue that posts a dispatch for every message, replaced entry or not.
LockedStoreAlwaysPosts(pending, key, tree) ==
    [wasEmpty |-> TRUE, pending |-> [pending EXCEPT ![key] = tree], mutex |-> "free"]

\* The locked block of enqueue: find, assign; the guard's scope ends with it,
\* on the early return as well.
LockedStore(pending, key, tree) ==
    [wasEmpty |-> pending[key] = 0, pending |-> [pending EXCEPT ![key] = tree],
     mutex |-> "free"]

\* The locked block of the dispatch: find, copy, erase; the guard's scope ends
\* before onEvent is looked at.
LockedTake(pending, key) ==
    [tree |-> pending[key], pending |-> [pending EXCEPT ![key] = 0], mutex |-> "free"]

\* The receiver thread calls enqueue(tree) with a tree it has parsed: the early
\* return without a handler, then the key.
EnqueueCall ==
    /\ rxClass = "EventReceiver"
    /\ readerPc = "loop"
    /\ enqueuePc.pc = "idle"
    /\ enqueuePc.n < MaxEnqueue
    /\ \E tree \in TreeCodes :
         enqueuePc' = IF ~ipc.onEvent
                      THEN [enqueuePc EXCEPT !.n = @ + 1]
                      ELSE [pc |-> "lock", key |-> TreeKey(Trees[tree]), tree |-> tree,
                            n |-> enqueuePc.n + 1]
    /\ UNCHANGED <<lockFrame, pendingTrees, asyncQ, invoked, pendingMutex, lambdaPc>>

\* std::lock_guard<std::mutex> lock(pendingMutex) in enqueue.
EnqueueLock ==
    /\ enqueuePc.pc = "lock"
    /\ pendingMutex = "free"
    /\ pendingMutex' = "reader"
    /\ enqueuePc' = [enqueuePc EXCEPT !.pc = "locked"]
    /\ UNCHANGED <<lockFrame, pendingTrees, asyncQ, invoked, lambdaPc>>

EnqueueStore ==
    /\ enqueuePc.pc = "locked"
    /\ LET r == LockedStore(pendingTrees, enqueuePc.key, enqueuePc.tree)
       IN  /\ pendingTrees' = r.pending
           /\ pendingMutex' = r.mutex
           /\ enqueuePc' = IF r.wasEmpty
                           THEN [enqueuePc EXCEPT !.pc = "post"]
                           ELSE [NoEnqueue EXCEPT !.n = enqueuePc.n]
    /\ UNCHANGED <<lockFrame, asyncQ, invoked, lambdaPc>>

\* juce::MessageManager::callAsync of the dispatch for the key.
EnqueuePost ==
    /\ enqueuePc.pc = "post"
    /\ LET post == CallAsync(asyncQ, invoked, Callback("pending", 0, enqueuePc.key))
       IN  asyncQ' = post.asyncQ /\ invoked' = post.invoked
    /\ enqueuePc' = [NoEnqueue EXCEPT !.n = enqueuePc.n]
    /\ UNCHANGED <<lockFrame, pendingTrees, pendingMutex, lambdaPc>>

\* The message loop of the owning thread takes the next posted dispatch.
LambdaStart ==
    /\ step = "idle"
    /\ lambdaPc.pc = "idle"
    /\ asyncQ # <<>>
    /\ Head(asyncQ).cb = "pending"
    /\ asyncQ' = Tail(asyncQ)
    /\ lambdaPc' = [pc |-> "lock", key |-> Head(asyncQ).key, tree |-> 0]
    /\ UNCHANGED <<lockFrame, pendingTrees, invoked, pendingMutex, enqueuePc>>

\* std::lock_guard<std::mutex> lock(pendingMutex) in the dispatch.
LambdaLock ==
    /\ lambdaPc.pc = "lock"
    /\ pendingMutex = "free"
    /\ pendingMutex' = "owner"
    /\ lambdaPc' = [lambdaPc EXCEPT !.pc = "locked"]
    /\ UNCHANGED <<lockFrame, pendingTrees, asyncQ, invoked, enqueuePc>>

\* The locked block, then if (treeToDispatch.isValid() && onEvent): the handler
\* is entered or the dispatch is over.
LambdaTake ==
    /\ lambdaPc.pc = "locked"
    /\ LET r == LockedTake(pendingTrees, lambdaPc.key)
       IN  /\ pendingTrees' = r.pending
           /\ pendingMutex' = r.mutex
           /\ lambdaPc' = IF TreeIsValid(r.tree) /\ ipc.onEvent
                          THEN [lambdaPc EXCEPT !.pc = "handler", !.tree = r.tree]
                          ELSE NoLambda
    /\ UNCHANGED <<lockFrame, asyncQ, invoked, enqueuePc>>

\* onEvent(treeToDispatch) returns. A handler that blocks never takes this step.
HandlerReturn ==
    /\ lambdaPc.pc = "handler"
    /\ invoked' = Append(invoked, Callback("event", lambdaPc.tree, ""))
    /\ lambdaPc' = NoLambda
    /\ UNCHANGED <<lockFrame, pendingTrees, asyncQ, pendingMutex, enqueuePc>>

LockNext ==
    \/ ChildLaunchCall
    \/ ReceiverStartCall
    \/ EnqueueCall
    \/ EnqueueLock
    \/ EnqueueStore
    \/ EnqueuePost
    \/ LambdaStart
    \/ LambdaLock
    \/ LambdaTake
    \/ HandlerReturn

SpecLock == Init /\ [][LockNext]_vars

\* Both threads are scheduled: the receiver thread leaves its locked block and
\* posts, the message loop of the owning thread runs what is posted, and a
\* handler it calls returns.
FairSpecLock ==
    /\ SpecLock
    /\ WF_vars(EnqueueStore) /\ WF_vars(EnqueuePost)
    /\ WF_vars(LambdaStart) /\ WF_vars(LambdaLock) /\ WF_vars(LambdaTake)
    /\ WF_vars(HandlerReturn)

\* ------------------------ ComposeProvider::resize, one statement at a time
\* A resize that hands the surface to the view before the child has its handle.
ResizeOrderViewFirst ==
    <<"surface.resize", "ipc.sendInput", "view.setPendingSurface", "sendSurfacePort">>

\* The statements of resize's if-block, in program order.
ResizeOrder ==
    <<"surface.resize", "ipc.sendInput", "sendSurfacePort", "view.setPendingSurface">>

\* resize(width, height) is entered: if (width <= 0 || height <= 0) return.
ResizeBegin ==
    /\ step = "idle"
    /\ rz.pc = 0
    /\ surfaceOps.resizeCalls < MaxResize
    /\ \E req \in ResizeRequests :
         /\ rz' = IF ResizeProceeds(req, "none")
                  THEN [pc |-> 1, id |-> NewSurfaceId(live), req |-> req, done |-> <<>>]
                  ELSE NoResize
         /\ step' = IF ResizeProceeds(req, "none") THEN "resize" ELSE "idle"
         /\ lastCall' = [op |-> "resize", ok |-> ResizeProceeds(req, "none"),
                         exe |-> "present", fault |-> "none"]
    /\ surfaceOps' = [surfaceOps EXCEPT !.resizeCalls = @ + 1,
                                        !.valid = @ /\ surfaceOps.phase = "running"]
    /\ UNCHANGED <<surfaceVars, mach, childVars, fdt, rx, sent, ipcVars, uiVars, todo,
                   lastSys, rxVars, tx, calls, now, codec, lockVars, wr, hs, uir>>

\* The statement has run: on to the next, or out of resize after the last.
ResizeAdvance ==
    /\ rz' = [rz EXCEPT !.pc = IF rz.pc < Len(ResizeOrder) THEN rz.pc + 1 ELSE 0,
                        !.done = Append(rz.done, ResizeOrder[rz.pc])]
    /\ step' = IF rz.pc < Len(ResizeOrder) THEN "resize" ELSE "idle"

\* The next statement of resize runs. surface_.resize may fail, and resize
\* returns; the results of sendInput and sendSurfacePort are not looked at.
ResizeDo ==
    /\ step = "resize"
    /\ rz.pc > 0
    /\ LET stmt == ResizeOrder[rz.pc]
           e == ResizeEvent(rz.req.width * rz.req.scale, rz.req.height * rz.req.scale,
                            rz.req.scale * 100)
       IN  CASE stmt = "surface.resize" ->
                  \E fault \in {"none", "surface"} :
                      IF fault = "surface"
                      THEN /\ rz' = NoResize
                           /\ step' = "idle"
                           /\ lastCall' = [lastCall EXCEPT !.ok = FALSE, !.fault = fault]
                           /\ UNCHANGED <<surface, live, surfaceOps, tx, ipc, calls,
                                          pushed, view>>
                      ELSE LET s2 == ResizeSurface(surface, rz.id)
                           IN  /\ surface' = s2
                               /\ live' = (live \cup {rz.id}) \ Released(surface, s2)
                               /\ surfaceOps' = Counted(surfaceOps, 1,
                                                    Cardinality(Released(surface, s2)), 1)
                               /\ ResizeAdvance
                               /\ UNCHANGED <<tx, ipc, calls, pushed, view, lastCall>>
             [] stmt = "ipc.sendInput" ->
                  \E out \in SendOutcomes(rxClass, ipc, InputParts(e), fdt, proc) :
                      /\ tx' = TxAfter(tx, fdt, ipc.socketFD, out)
                      /\ ipc' = IpcAfterSend(ipc, out)
                      /\ calls' = Append(calls, [op |-> "resize", parts |-> InputParts(e),
                                                 open |-> ipc.socketFD >= 0, at |-> now])
                      /\ ResizeAdvance
                      /\ UNCHANGED <<surface, live, surfaceOps, pushed, view, lastCall>>
             [] stmt = "sendSurfacePort" ->
                  /\ pushed' = IF SendPortSucceeds(mach) /\ SurfaceIsValid(surface)
                               THEN surface.cur ELSE pushed
                  /\ ResizeAdvance
                  /\ UNCHANGED <<surface, live, surfaceOps, tx, ipc, calls, view, lastCall>>
             [] stmt = "view.setPendingSurface" ->
                  /\ view' = [view EXCEPT !.pending = surface.cur]
                  /\ ResizeAdvance
                  /\ UNCHANGED <<surface, live, surfaceOps, tx, ipc, calls, pushed,
                                 lastCall>>
    /\ UNCHANGED <<mach, childVars, fdt, rx, sent, readerPc, rdBuf, uiVars, todo,
                   lastSys, rxVars, now, codec, lockVars, wr, hs, uir>>

OrderNext ==
    \/ ProviderLaunchCall
    \/ ResizeBegin
    \/ ResizeDo
    \/ MachStep
    \/ ChildExit

SpecOrder == Init /\ [][OrderNext]_vars

\* ------------------- machPortThread_: the initial push, one statement at a time
handshakeFrame == <<surface, live, view, childVars, fdt, rx, sent, ipcVars, uiVars,
                    todo, step, lastSys, lastCall, rxVars, sendVars, now, codec,
                    lockVars, wr, rz, uir>>

\* machPortIPC_.waitForClient() returned true: the thread goes on to
\* sendSurfacePort().
HandshakeConnects ==
    /\ mach.thread = "waiting"
    /\ mach.server
    /\ \E p \in Pids : proc[p] = "running"
    /\ mach' = [mach EXCEPT !.thread = "pushing", !.client = TRUE]
    /\ hs' = [pc |-> "create", port |-> 0]
    /\ UNCHANGED <<handshakeFrame, pushed>>

\* uint32_t surfacePort = surface_.createMachPort(): a right for the surface that
\* surface_ holds at this moment, 0 without one; if (surfacePort != 0).
HandshakeCreatePort ==
    /\ hs.pc = "create"
    /\ hs' = IF SurfaceIsValid(surface) THEN [pc |-> "send", port |-> surface.cur]
             ELSE NoHandshake
    /\ mach' = IF SurfaceIsValid(surface) THEN mach ELSE [mach EXCEPT !.thread = "done"]
    /\ UNCHANGED <<handshakeFrame, pushed>>

\* machPortIPC_.sendPort(surfacePort), mach_port_deallocate, and the thread's
\* function returns.
HandshakeSendPort ==
    /\ hs.pc = "send"
    /\ pushed' = IF SendPortSucceeds(mach) THEN hs.port ELSE pushed
    /\ hs' = NoHandshake
    /\ mach' = [mach EXCEPT !.thread = "done"]
    /\ UNCHANGED handshakeFrame

PushNext ==
    \/ ProviderLaunchCall
    \/ ResizeBegin
    \/ ResizeDo
    \/ HandshakeConnects
    \/ HandshakeCreatePort
    \/ HandshakeSendPort
    \/ MachWaitFails

SpecPush == Init /\ [][PushNext]_vars

\* ------------------------------------------- UIReceiver (src/juce/bridge)
uiReceiverFrame == <<surfaceVars, mach, childVars, fdt, rx, sent, ipcVars, uiVars,
                     todo, step, lastSys, lastCall, rxVars, sendVars, now, codec,
                     lockVars, wr, rz, hs>>

\* The descriptor open(path, O_RDONLY) returns.
UiFd == Lowest(Fds)

\* open(path, O_RDONLY) of a FIFO returns once a process has opened it for
\* writing: one has it open now, or opened it while this open was waiting.
OpenReturns(writer, woken) == writer = "open" \/ woken

\* ::read of a FIFO that holds no byte returns 0 once no process has the write
\* end open.
ReadFindsEof(writer, avail) == avail = 0 /\ writer = "closed"

\* start(fifoPath) with a path that names the FIFO: if (running.load()) return;
\* running.store(true); the reader thread is created.
UiStart ==
    /\ uir.stop = "idle"
    /\ uir.starts < MaxCalls
    /\ uir' = IF uir.running
              THEN [uir EXCEPT !.starts = @ + 1]
              ELSE [uir EXCEPT !.starts = @ + 1, !.running = TRUE, !.pc = "open",
                               !.woken = FALSE]
    /\ UNCHANGED uiReceiverFrame

\* fd = open(path.toRawUTF8(), O_RDONLY) returns on the reader thread.
UiReaderOpen ==
    /\ uir.pc = "open"
    /\ OpenReturns(uir.writer, uir.woken)
    /\ uir' = [uir EXCEPT !.fd = UiFd, !.pc = "loop"]
    /\ UNCHANGED uiReceiverFrame

\* while (running.load()): readFully of the header and the payload, dispatch.
\* Without the flag, with an invalid fd or at end of file the loop is left; with
\* nothing to read and a writer the thread blocks in ::read.
UiReaderLoop ==
    /\ uir.pc = "loop"
    /\ uir' = IF ~uir.running \/ uir.fd < 0 \/ ReadFindsEof(uir.writer, uir.avail)
              THEN [uir EXCEPT !.pc = "close"]
              ELSE IF uir.avail > 0
              THEN [uir EXCEPT !.avail = @ - 1, !.got = @ + 1]
              ELSE [uir EXCEPT !.pc = "blocked"]
    /\ UNCHANGED uiReceiverFrame

\* The blocked ::read returns: bytes have arrived, or the last writer is gone.
UiReaderWakes ==
    /\ uir.pc = "blocked"
    /\ uir.avail > 0 \/ ReadFindsEof(uir.writer, uir.avail)
    /\ uir' = [uir EXCEPT !.pc = "loop"]
    /\ UNCHANGED uiReceiverFrame

\* stop() has closed the descriptor under the blocked ::read: whether the read
\* returns for that is not defined, so it may.
UiReadInterrupted ==
    /\ uir.pc = "blocked"
    /\ uir.fd < 0
    /\ uir' = [uir EXCEPT !.pc = "close"]
    /\ UNCHANGED uiReceiverFrame

\* After the loop: if (fd >= 0) { close(fd); fd = -1; } and the thread ends.
UiReaderClose ==
    /\ uir.pc = "close"
    /\ uir' = [uir EXCEPT !.fd = -1, !.pc = "exited"]
    /\ UNCHANGED uiReceiverFrame

UiReaderStep ==
    \/ UiReaderOpen
    \/ UiReaderLoop
    \/ UiReaderWakes
    \/ UiReaderClose

\* stop() is entered: running.store(false).
UiStopCall ==
    /\ uir.stop = "idle"
    /\ uir' = [uir EXCEPT !.running = FALSE, !.stop = "close"]
    /\ UNCHANGED uiReceiverFrame

\* if (fd >= 0) { close(fd); fd = -1; }
UiStopClose ==
    /\ uir.stop = "close"
    /\ uir' = [uir EXCEPT !.fd = -1, !.stop = "join"]
    /\ UNCHANGED uiReceiverFrame

\* if (readerThread.joinable()) readerThread.join(); and stop() returns.
UiStopJoin ==
    /\ uir.stop = "join"
    /\ uir.pc \in {"none", "exited"}
    /\ uir' = [uir EXCEPT !.pc = "none", !.stop = "idle"]
    /\ UNCHANGED uiReceiverFrame

UiStopStep ==
    \/ UiStopClose
    \/ UiStopJoin

\* The child opens the FIFO for writing; a reader waiting in open is woken.
UiChildOpens ==
    /\ uir.childUp
    /\ uir.writer = "never"
    /\ uir' = [uir EXCEPT !.writer = "open", !.woken = (uir.pc = "open")]
    /\ UNCHANGED uiReceiverFrame

\* The child writes one message.
UiChildWrites ==
    /\ uir.writer = "open"
    /\ uir.written < MaxWrite
    /\ uir' = [uir EXCEPT !.avail = @ + 1, !.written = @ + 1]
    /\ UNCHANGED uiReceiverFrame

\* The child exits: a write end it had open is closed.
UiChildExits ==
    /\ uir.childUp
    /\ uir' = [uir EXCEPT !.childUp = FALSE,
                          !.writer = IF @ = "open" THEN "closed" ELSE @]
    /\ UNCHANGED uiReceiverFrame

UiNext ==
    \/ UiStart
    \/ UiReaderStep
    \/ UiReadInterrupted
    \/ UiStopCall
    \/ UiStopStep
    \/ UiChildOpens
    \/ UiChildWrites
    \/ UiChildExits

SpecUi == Init /\ [][UiNext]_vars

\* Both threads are scheduled.
FairSpecUi == SpecUi /\ WF_vars(UiReaderStep) /\ WF_vars(UiStopStep)

\* ----------------------------- Ipc::writeNonBlocking, one loop turn at a time
\* A descriptor left in blocking mode.
FdFlagsBlocking(t, fd) == {}

\* The status flags of the descriptor after Ipc::setSocketFD: fcntl(F_GETFL)
\* succeeds on an open descriptor and F_SETFL adds O_NONBLOCK.
FdFlags(t, fd) == IF fd >= 0 /\ IsOpen(t, fd) THEN {"O_NONBLOCK"} ELSE {}

\* The turn from loop state s to s2 made no progress and stayed in the loop:
\* ::write found the channel full.
WouldBlock(s, s2) == s2.ret = "run" /\ s2.total = s.total

\* writeNonBlocking(data, size) is entered by a send on a valid channel.
WriteBegin ==
    /\ step = "idle"
    /\ rxClass = "Ipc"
    /\ IsValid(ipc)
    /\ wr.pc = "idle"
    /\ \E size \in 1..MaxBuffer :
         wr' = [NoWrite EXCEPT !.pc = "loop", !.size = size,
                               !.flags = FdFlags(fdt, ipc.socketFD)]
    /\ UNCHANGED <<surfaceVars, mach, childVars, fdt, rx, sent, ipcVars, uiVars, todo,
                   step, lastSys, lastCall, rxVars, sendVars, now, codec, lockVars,
                   tailVars>>

\* One turn of the loop, or the test after it. A ::write that finds the channel
\* full returns at once on a non-blocking descriptor and waits for the peer on a
\* blocking one.
WriteTurn ==
    /\ wr.pc = "loop"
    /\ \E s2 \in LoopTurn(wr.s, wr.size, fdt, proc, ipc.socketFD) :
         LET wrote == wr.s.attempts < MaxAttempts /\ wr.s.total < wr.size
             full == wrote /\ WouldBlock(wr.s, s2)
         IN  wr' = [wr EXCEPT !.s = s2,
                              !.pc = IF s2.ret = "run" THEN "loop" ELSE "done",
                              !.turns = IF wrote THEN @ + 1 ELSE @,
                              !.stalls = IF full THEN @ + 1
                                         ELSE IF wrote THEN 0 ELSE @,
                              !.waited = @ \/ (full /\ "O_NONBLOCK" \notin wr.flags)]
    /\ UNCHANGED <<surfaceVars, mach, childVars, fdt, rx, sent, ipcVars, uiVars, todo,
                   step, lastSys, lastCall, rxVars, sendVars, now, codec, lockVars,
                   tailVars>>

\* The call returns; a false return has set socketFD = -1.
WriteEnd ==
    /\ wr.pc = "done"
    /\ ipc' = [ipc EXCEPT !.socketFD = SocketAfterWrite(ipc.socketFD, wr.s.ret = "true")]
    /\ wr' = [wr EXCEPT !.pc = "idle"]
    /\ UNCHANGED <<surfaceVars, mach, childVars, fdt, rx, sent, readerPc, rdBuf, uiVars,
                   todo, step, lastSys, lastCall, rxVars, sendVars, now, codec, lockVars,
                   tailVars>>

WriteNext ==
    \/ ChildLaunchCall
    \/ ReceiverStartCall
    \/ WriteBegin
    \/ WriteTurn
    \/ WriteEnd
    \/ ChildExit

SpecWrite == Init /\ [][WriteNext]_vars

\* ==================================================================== claims
OwnerMoves == <<todo, step, pollI>>' # <<todo, step, pollI>>

WriteSideOpen == \E f \in Fds : fdt[f].kind = "in_w"
ReadSideOpen == \E f \in Fds : fdt[f].kind = "out_r"

\* ComposeProvider::isRunning
ProviderIsRunning == ChildIsRunning(child, proc)

IpcStopped == ~ipc.running /\ readerPc = "none" /\ ipc.socketFD < 0
ChildStopped == child.pid <= 0 /\ child.stdinFD < 0 /\ child.stdoutFD < 0
MachReleased == ~mach.server /\ mach.thread = "none"

\* C1 (as claimed): during ComposeProvider::stop the Ipc channel is stopped before
\* the child is, the child before the Mach endpoint is released, and all three
\* before the surface is released. The code releases the Mach endpoint first and
\* stops the child before the Ipc channel, so this fails.
C1_StopOrderAsClaimed ==
    todo # <<>> =>
        /\ (Head(todo) = "child" => IpcStopped)
        /\ (Head(todo) = "mach" => IpcStopped /\ ChildStopped)
        /\ (Head(todo) = "surface" => IpcStopped /\ ChildStopped /\ MachReleased)

\* C2: every step of ComposeProvider::stop that releases a surface is taken when
\* ChildProcess::stop has returned and no child is running or waiting to be reaped.
C2_SurfaceReleasedAfterChildExit ==
    [][(todo # <<>> /\ live' # live) => (NoLiveChild /\ child.pid <= 0)]_vars

C2_Witness ==
    /\ destroyed /\ launched_
    /\ live = {} /\ surface = NoSurface
    /\ \E p \in Pids : proc[p] = "reaped"

\* What "nothing dangling" means for the provider.
NothingAllocated ==
    /\ surface = NoSurface /\ live = {}
    /\ ~mach.server /\ mach.thread = "none"
    /\ NoLiveChild
    /\ FreeFds(fdt) = Fds
    /\ child.pid <= 0 /\ child.stdinFD < 0 /\ child.stdoutFD < 0
    /\ readerPc = "none" /\ ~ipc.running

\* C3: a launch in which surface creation, endpoint creation or the child launch
\* fails returns false and leaves nothing allocated; the component stays unlaunched.
C3_FailedLaunchRollsBack ==
    (lastCall.op = "launch" /\ (lastCall.fault # "none" \/ lastCall.exe # "present")) =>
        /\ ~lastCall.ok
        /\ ~launched_
        /\ NothingAllocated

C3_Witness ==
    /\ lastCall.op = "launch" /\ lastCall.fault = "fork" /\ lastCall.exe = "present"
    /\ child.pid = -1

\* C4: a start while the executable is missing (missing when tryLaunch looks, or
\* gone when ChildProcess::launch looks) fails, forks nothing, leaves no surface and
\* no descriptor, and leaves the component ready for a later attempt.
C4_MissingExecutableLeavesCleanState ==
    (lastCall.op = "launch" /\ lastCall.exe # "present") =>
        /\ ~lastCall.ok
        /\ \A p \in Pids : proc[p] = "unused"
        /\ surface = NoSurface /\ live = {} /\ view = NoView
        /\ mach = NoMach
        /\ FreeFds(fdt) = Fds
        /\ ipc = NoIpc /\ readerPc = "none"
        /\ ~launched_ /\ step = "idle"

C4_Witness ==
    /\ lastCall.op = "launch" /\ lastCall.exe = "vanished" /\ lastCall.fault = "none"
    /\ ~lastCall.ok

\* C5: in ChildProcess::stop no wait for (and no kill of) the child is made while
\* the write side of the channel is open, and the read side is closed only when
\* the child has been reaped.
C5_ChildStopOrdered ==
    [][/\ (/\ todo # <<>> /\ Head(todo) = "child"
           /\ step \in {"poll", "kill", "wait"}
           /\ child.pid > 0
           /\ OwnerMoves) => ~WriteSideOpen
       /\ (ReadSideOpen /\ ~ReadSideOpen') => (NoLiveChild /\ child.pid <= 0)]_vars

C5_Witness ==
    /\ lastCall.op = "child.stop" /\ step = "idle"
    /\ ~ReadSideOpen /\ ~WriteSideOpen
    /\ \E p \in Pids : p \in killed /\ proc[p] = "reaped"

\* C6: ChildProcess::stop polls at most GracePolls times, kills only after the last
\* poll, always returns, and on return the child is reaped and isRunning() is false.
C6_StopReapsWithinBoundedPolls ==
    /\ [](pollI <= GracePolls)
    /\ [][killed' # killed => (pollI = GracePolls /\ step = "kill")]_vars
    /\ []((lastCall.op = "child.stop" /\ step = "idle") =>
            (NoLiveChild /\ ~ChildIsRunning(child, proc)))
    /\ ((todo # <<>>) ~> (todo = <<>>))

C6_Witness ==
    /\ lastCall.op = "child.stop" /\ step = "idle"
    /\ child.pid = 0
    /\ \E p \in Pids : p \in killed /\ proc[p] = "reaped"

\* No child to wait for and no descriptor of an endpoint open.
NothingToStop == NoLiveChild /\ FreeFds(fdt) = Fds

\* C7: a ChildProcess::stop that runs when there is no child and no open endpoint
\* (never launched, launch failed, or already stopped) makes no system call and
\* changes nothing.
C7_ChildStopIdempotent ==
    [][(/\ todo # <<>> /\ Head(todo) = "child"
        /\ NothingToStop
        /\ OwnerMoves) => (lastSys' = "none" /\ UNCHANGED <<child, fdt, proc, killed>>)]_vars

C7_Witness ==
    /\ lastCall.op = "child.stop"
    /\ todo # <<>> /\ step = "close_stdout"
    /\ NothingToStop
    /\ \E p \in Pids : proc[p] = "reaped"

\* C8 (as claimed): isRunning() is true exactly while the child executes. The code
\* asks kill(pid, 0), which also succeeds for a child that has exited and has not
\* been reaped, so this fails.
C8_IsRunningReflectsProcess ==
    child.pid > 0 => (ProviderIsRunning <=> proc[child.pid] = "running")

Occurrences(seq, x) == Cardinality({i \in 1..Len(seq) : seq[i].cb = x})

\* C9 (as claimed): once the reader has seen the end of the stream (after the frame
\* ready notification was delivered) the disconnect handler has run exactly once and
\* isRunning() is false, with no stop(). The code has no such handler and leaves the
\* exited child unreaped, so this fails.
C9_DisconnectReported ==
    (/\ readerPc = "exited" /\ ipc.running
     /\ ~destroyed /\ step = "idle" /\ asyncQ = <<>>
     /\ Occurrences(invoked, "frameReady") > 0) =>
        (Occurrences(invoked, "disconnect") = 1 /\ ~ProviderIsRunning)

\* C10: Ipc::stop always returns, it returns with the reader thread joined, and the
\* reader takes no step (no read, no posted callback) after it has returned.
C10_IpcStopJoinsReader ==
    /\ ((todo # <<>>) ~> (todo = <<>>))
    /\ []((lastCall.op = "ipc.stop" /\ step = "idle") => readerPc = "none")
    /\ [][(lastCall.op = "ipc.stop" /\ step = "idle" /\ lastCall' = lastCall) =>
            (/\ UNCHANGED <<readerPc, rdBuf>>
             /\ Len(asyncQ') <= Len(asyncQ)
             /\ \A p \in Pids : Len(rx'[p]) >= Len(rx[p]))]_vars

C10_Witness ==
    /\ lastCall.op = "ipc.stop" /\ step = "idle"
    /\ child.stdoutFD >= 0 /\ ~IsOpen(fdt, child.stdoutFD)
    /\ \E p \in Pids : proc[p] = "running" /\ sent[p] = 0

\* C11: a handler (frame-ready, generic event, MIDI) is invoked only by the owning
\* thread running a callback taken from the head of its queue; no step in which the
\* receiver thread reads, parses or posts invokes a handler.
C11_HandlersRunOnOwningThread ==
    [][invoked' # invoked =>
         /\ step = "idle"
         /\ asyncQ # <<>> /\ asyncQ' = Tail(asyncQ)
         /\ UNCHANGED <<readerPc, rdBuf, rdLen, rdKey, rx>>]_vars

C11_Witness ==
    /\ rxClass = "Ipc"
    /\ \E i, j \in 1..Len(invoked) : invoked[i].cb = "midi" /\ invoked[j].cb = "event"

\* The first stop() of the destruction has returned.
StopReturned ==
    /\ surfaceOps.started /\ surfaceOps.phase = "idle"
    /\ Len(todo) <= Len(StopOrder) + Len(MemberDestructors)

\* A step of a resize that replaced the surface; a step that released a surface.
ResizeStep == surfaceOps'.resizeCalls # surfaceOps.resizeCalls /\ surface' # surface
ReleasedNow == live \ live'

C13_PreviousSurfaceRetained ==
    /\ [](live = SurfaceIds(surface) /\ Cardinality(live) <= 2)
    /\ [][ReleasedNow # {} =>
            \/ ResizeStep /\ ReleasedNow = {surface.prev} /\ surface'.prev = surface.cur
            \/ At("surface", "release")]_vars

C13_Witness ==
    /\ surfaceOps.valid /\ surfaceOps.phase = "running"
    /\ surfaceOps.resize = 2
    /\ surfaceOps.release = 1
    /\ surface.prev # 0 /\ live = {surface.cur, surface.prev}

\* C14: a resize called while the provider is not Running (before a successful
\* start, after a failed start, after stop) allocates and releases no surface, writes
\* nothing to the control stream, pushes no handle and changes no provider state.
C14_ResizeOnlyWhileRunning ==
    [][surfaceOps'.resizeCalls # surfaceOps.resizeCalls /\ surfaceOps.phase # "running" =>
         UNCHANGED <<surface, live, tx, pushed, view, ipc, mach, child>>]_vars

\* C15: at any time at most one child process of the provider is alive or not yet
\* reaped, whatever launch, resize and stop calls were made.
C15_AtMostOneLiveChild ==
    Cardinality({p \in Pids : proc[p] \in {"running", "zombie"}}) <= 1

\* The calls that found the channel valid, and a decoded message that is a resize.
OpenCalls == SelectSeq(calls, LAMBDA c : c.open)
IsResizeMessage(m) == m[1] = EVENT_TYPE_INPUT /\ m[2] = INPUT_EVENT_RESIZE

\* C16: the complete messages on the control stream are, in order and with none
\* left out, the messages of the send calls in call order; so when the resize Input
\* event is on the stream, every Input event and Generic message sent before that
\* resize is on the stream, complete, before it.
C16_SentBeforeResizeArrivesFirst ==
    \A p \in Pids :
        LET received == Decode(tx[p])
        IN  /\ Len(received) <= Len(OpenCalls)
            /\ \A i \in 1..Len(received) : received[i] = Flatten(OpenCalls[i].parts)

C16_Witness ==
    \E p \in Pids :
        LET received == Decode(tx[p])
        IN  /\ Len(received) = 3
            /\ IsResizeMessage(received[3])
            /\ received[1][1] = EVENT_TYPE_INPUT /\ ~IsResizeMessage(received[1])
            /\ received[2][1] = EVENT_TYPE_JUCE
            /\ calls[1].op = "sendInput" /\ calls[2].op = "sendEvent"

\* The peer of the channel's descriptor is gone: a write fails with a hard error.
PeerGone ==
    \/ ~IsOpen(fdt, ipc.socketFD)
    \/ proc[fdt[ipc.socketFD].pid] # "running"

SendStep == calls' # calls
ChannelWasOpen == \E k \in 1..Len(calls) : calls[k].open

CoalescingKey(c) == <<Trees[c].type, IF Trees[c].type = "param" THEN Trees[c].id ELSE "">>

\* The tree a written message carries, 0 for a message that is not a valid Generic.
WireTree(m) == IF m[1] = EVENT_TYPE_JUCE THEN ReadFromData(SubSeq(m, 6, Len(m))) ELSE 0

\* The frame-ready notifications and Generic messages written, in stream order.
Received == SelectSeq(wire, LAMBDA m : m = FrameReadyMsg \/ WireTree(m) # 0)

\* The frame-ready and event handler calls made, in order.
Delivered == SelectSeq(invoked, LAMBDA c : c.cb \in {"frameReady", "event"})

\* The reader has taken every written byte off the stream and is between messages.
AllRead ==
    /\ readerPc \in {"loop", "tag", "exited"}
    /\ rdBuf = <<>>
    /\ \A p \in Pids : rx[p] = <<>>

\* ... and the owning thread has run every posted callback.
Drained == AllRead /\ asyncQ = <<>>

\* The positions in the stream of the Generic messages with key k.
WithKey(k) == {i \in 1..Len(wire) : WireTree(wire[i]) # 0 /\ CoalescingKey(WireTree(wire[i])) = k}

\* The positions in the handler calls of the events with key k.
DispatchedWithKey(k) ==
    {j \in 1..Len(invoked) : invoked[j].cb = "event" /\ CoalescingKey(invoked[j].tree) = k}

\* The queued dispatches that will hand the event handler a tree with key k.
QueuedWithKey(k) ==
    {q \in 1..Len(asyncQ) :
        /\ asyncQ[q].cb = "pending"
        /\ pendingTrees[asyncQ[q].key] # 0
        /\ CoalescingKey(pendingTrees[asyncQ[q].key]) = k}

Highest(S) == CHOOSE x \in S : \A y \in S : y <= x

CoalescingKeys == {CoalescingKey(c) : c \in TreeCodes}

\* Handler call d is the delivery of written message m.
Delivers(d, m) ==
    IF d.cb = "frameReady" THEN m = FrameReadyMsg ELSE WireTree(m) = d.tree

\* A message read at position from may be delivered in the queue position of the
\* message read at position slot: its own, or that of an earlier pending message
\* with its key.
MayTakeSlot(slot, from) ==
    \/ slot = from
    \/ /\ slot < from
       /\ WireTree(Received[slot]) # 0 /\ WireTree(Received[from]) # 0
       /\ CoalescingKey(WireTree(Received[slot])) = CoalescingKey(WireTree(Received[from]))

\* C17: frame-ready notifications and generic messages are delivered to the
\* handlers in the order they were read from the stream, except that a coalesced
\* same-key generic message takes the queue position of the earlier pending
\* message it replaced: the deliveries made so far can be assigned distinct
\* messages of the stream and queue positions that increase with the deliveries.
C17_DeliveredInReceiveOrder ==
    \E from \in [1..Len(Delivered) -> 1..Len(Received)] :
        /\ \A j \in 1..Len(Delivered) : Delivers(Delivered[j], Received[from[j]])
        /\ \A j, k \in 1..Len(Delivered) : j # k => from[j] # from[k]
        /\ \E slot \in [1..Len(Delivered) -> 1..Len(Received)] :
             /\ \A j \in 1..Len(Delivered) : MayTakeSlot(slot[j], from[j])
             /\ \A j, k \in 1..Len(Delivered) : j < k => slot[j] < slot[k]

\* C18: two Generic messages with the same coalescing key received before the
\* owning thread drains the first give exactly one dispatch for that key, and its
\* payload is the later one: once both are read and nothing has been dispatched,
\* exactly one queued dispatch carries the key, with the latest payload; and once
\* everything is dispatched, the key's last dispatch carried its latest payload.
C18_SameKeyOneDispatchLaterPayload ==
    rxClass = "EventReceiver" =>
        \A k \in CoalescingKeys :
            Cardinality(WithKey(k)) >= 2 =>
                LET latest == WireTree(wire[Highest(WithKey(k))])
                IN  /\ AllRead /\ invoked = <<>> =>
                          /\ Cardinality(QueuedWithKey(k)) = 1
                          /\ \A q \in QueuedWithKey(k) : pendingTrees[asyncQ[q].key] = latest
                    /\ Drained =>
                          /\ DispatchedWithKey(k) # {}
                          /\ invoked[Highest(DispatchedWithKey(k))].tree = latest

\* C19: Generic messages with different coalescing keys are never collapsed into
\* each other: once everything read is dispatched, every key that was received
\* has had a dispatch of its own, and the key's last dispatch carried the key's
\* own latest payload.
C19_DistinctKeysNotCollapsed ==
    Drained =>
        \A k \in CoalescingKeys :
            WithKey(k) # {} =>
                /\ DispatchedWithKey(k) # {}
                /\ invoked[Highest(DispatchedWithKey(k))].tree = WireTree(wire[Highest(WithKey(k))])

\* ------------------------------------------------------------ the wire format
\* The bytes readFully hands back in this step: what it had accumulated and what
\* this step takes off the stream.
BytesReturned ==
    LET fd == ipc.socketFD
    IN  IF fd >= 0 /\ IsOpen(fdt, fd) /\ fdt[fd].kind = "out_r"
        THEN rdBuf \o SubSeq(rx[fdt[fd].pid], 1,
                             Len(rx[fdt[fd].pid]) - Len(rx'[fdt[fd].pid]))
        ELSE rdBuf

\* The reader completes the length header of a Generic message, and the length
\* exceeds the bound.
OversizeHeaderRead ==
    /\ readerPc = "juce_size"
    /\ readerPc' # "juce_size"
    /\ Len(BytesReturned) = 4
    /\ Le32(BytesReturned) > MaxGenericSize

\* C21: a Generic message whose length header exceeds the 1 MiB bound makes the
\* receiver drop the connection: the reader posts nothing for it and stops
\* receiving from the channel.
C21_OversizeDropsConnection ==
    [][OversizeHeaderRead => readerPc' = "exited" /\ asyncQ' = asyncQ]_vars

\* What is left of stream b after its complete messages.
Residue(b) == SubSeq(b, Len(Flatten(Decode(b))) + 1, Len(b))

\* A message with the frame of its type: the tag and the 16-byte record, or the
\* tag, a 4-byte little-endian length and that many bytes.
WellFramed(m) ==
    \/ m[1] = EVENT_TYPE_INPUT /\ Len(m) = 1 + InputEventSize
    \/ m[1] = EVENT_TYPE_JUCE /\ Len(m) = 5 + Le32(SubSeq(m, 2, 5))

\* C22: every message the host writes is one type-tag byte followed by its
\* payload, 16 bytes for an Input message and a 4-byte little-endian length with
\* exactly that many bytes for a Generic message: the bytes written to a child
\* parse into such messages with nothing left over, except for one cut-off
\* message at the end of a channel that has failed and is written to no more.
C22_MessagesAreFramed ==
    \A p \in Pids :
        /\ \A i \in 1..Len(Decode(tx[p])) : WellFramed(Decode(tx[p])[i])
        /\ Residue(tx[p]) # <<>> =>
               /\ ~IsValid(ipc)
               /\ Residue(tx[p])[1] \in {EVENT_TYPE_INPUT, EVENT_TYPE_JUCE}

C22_Witness ==
    /\ IsValid(ipc)
    /\ \E p \in Pids :
         /\ Residue(tx[p]) = <<>>
         /\ \E i, j \in 1..Len(Decode(tx[p])) :
              /\ Decode(tx[p])[i][1] = EVENT_TYPE_INPUT
              /\ Decode(tx[p])[j][1] = EVENT_TYPE_JUCE
              /\ Le32(SubSeq(Decode(tx[p])[j], 2, 5)) = Len(WriteToStream(Lowest(TreeCodes)))

\* The reader takes one byte off the stream as a type tag, as a CMP subtype.
TagRead(tag) == readerPc = "tag" /\ BytesReturned = <<tag>>
SubtypeRead(subtype) == readerPc = "cmp_sub" /\ BytesReturned = <<subtype>>

\* C23 as stated: a FrameReady message is its type-tag byte only, and after that
\* one byte the receiver treats the next byte as the type tag of the next message.
C23_FrameReadyIsOneByte ==
    [][TagRead(EVENT_TYPE_CMP) => readerPc' = "loop"]_vars

\* C23, amended: a FrameReady message is the type tag EVENT_TYPE_CMP followed by
\* the subtype byte CMP_SUBTYPE_FIRST_FRAME and nothing else; the receiver consumes
\* exactly those two bytes, posts the frame-ready callback, and treats the next
\* byte as the type tag of the next message, so every frame-ready message written
\* is delivered once the stream is read and the callbacks have run.
C23_FrameReadyIsTagAndSubtype ==
    /\ [](Drained =>
            Cardinality({j \in 1..Len(invoked) : invoked[j].cb = "frameReady"})
                = Cardinality({i \in 1..Len(wire) : wire[i] = FrameReadyMsg}))
    /\ [][TagRead(EVENT_TYPE_CMP) => readerPc' = "cmp_sub" /\ asyncQ' = asyncQ]_vars
    /\ [][SubtypeRead(CMP_SUBTYPE_FIRST_FRAME) =>
            /\ readerPc' = "loop"
            /\ asyncQ' = Append(asyncQ, Callback("frameReady", 0, ""))]_vars

C23_Witness ==
    /\ Drained
    /\ Len(wire) >= 2 /\ wire[1] = FrameReadyMsg /\ WireTree(wire[2]) # 0
    /\ Len(invoked) >= 2 /\ invoked[1].cb = "frameReady" /\ invoked[2].cb = "event"

\* The fields of an InputEvent other than its timestamp.
EventFields == {"type", "action", "button", "modifiers", "x", "y", "data1", "data2"}

\* C24: encoding an InputEvent of any kind to its 16-byte little-endian record and
\* decoding that record yields identical type, action, button, modifiers, x, y,
\* data1 and data2.
C24_InputEventRoundTrip ==
    codec.pc = "decoded" =>
        /\ Len(codec.bytes) = InputEventSize
        /\ \A f \in EventFields : codec.decoded[f] = codec.event[f]

C24_Witness ==
    /\ codec.pc = "decoded"
    /\ codec.event.type = INPUT_EVENT_KEY
    /\ codec.event.data1 < 0 /\ codec.event.data2 = 1
    /\ codec.decoded.data1 = codec.event.data1

\* The timestamp field of an Input message on the stream (the tag, then the record).
MessageTimestamp(m) == EventFromBytes(SubSeq(m, 2, Len(m))).timestamp

\* The Input messages on child p's stream, by position.
InputsOn(p) == {i \in 1..Len(Decode(tx[p])) : Decode(tx[p])[i][1] = EVENT_TYPE_INPUT}

\* C25: every Input event on the channel carries the milliseconds elapsed since
\* the channel was attached at the moment its send call was made, so the
\* timestamps of successive Input events on the wire, resize events included,
\* never decrease.
C25_TimestampsAreSendTimes ==
    \A p \in Pids :
        /\ \A i \in InputsOn(p) :
               i <= Len(OpenCalls) => MessageTimestamp(Decode(tx[p])[i]) = OpenCalls[i].at
        /\ \A i, j \in InputsOn(p) :
               i < j => MessageTimestamp(Decode(tx[p])[i]) <= MessageTimestamp(Decode(tx[p])[j])

\* ---------------------------------------------------------------- C26
\* The last call was launch() on a path that is not an existing executable
\* file.
LaunchedUnusable == lastCall.op = "child.launch" /\ lastCall.exe # "present"

\* C26: launch on a path that does not resolve to an existing, executable
\* file returns failure, forks no process and leaves no descriptor open.
C26_LaunchFailsUnlessExecutable ==
    LaunchedUnusable =>
        /\ ~lastCall.ok
        /\ NoLiveChild
        /\ child.stdinFD = -1 /\ child.stdoutFD = -1
        /\ \A fd \in Fds : ~IsOpen(fdt, fd)

\* ---------------------------------------------------------------- C27
\* C27: pendingMutex is held only inside the two blocks that find, assign or
\* erase a map entry: never while a handler runs, never while a dispatch is being
\* posted, so a receiver thread waiting for the mutex while a handler runs finds
\* it free.
C27_MutexHeldOnlyForMapAccess ==
    /\ pendingMutex = "reader" <=> enqueuePc.pc = "locked"
    /\ pendingMutex = "owner" <=> lambdaPc.pc = "locked"
    /\ lambdaPc.pc = "handler" /\ enqueuePc.pc = "lock" => pendingMutex = "free"

\* A handler is running while the receiver thread holds the mutex.
C27_Witness ==
    /\ lambdaPc.pc = "handler"
    /\ enqueuePc.pc = "locked"
    /\ pendingMutex = "reader"

\* ---------------------------------------------------------------- C28
\* The receiver thread exists and has not left readerLoop: it may execute
\* readFully, which reads socketFD, or a handler test.
ReaderCanRead == readerPc \notin {"none", "exited"}

\* C28: while the receiver thread of an Ipc can run, no step writes the channel
\* descriptor or a registered handler.
C28_DescriptorAndHandlersNotShared ==
    [][rxClass = "Ipc" /\ ReaderCanRead =>
           /\ ipc'.socketFD = ipc.socketFD
           /\ ipc'.onFrameReady = ipc.onFrameReady
           /\ ipc'.onEvent = ipc.onEvent
           /\ ipc'.onMidi = ipc.onMidi]_vars

\* ---------------------------------------------------------------- C29
\* The background threads of the provider that are running: the receiver thread
\* until it leaves readerLoop, machPortThread_ until its function returns.
BackgroundThreads ==
    (IF ReaderCanRead THEN {"receiver"} ELSE {})
        \cup (IF mach.thread = "waiting" THEN {"machPort"} ELSE {})

\* C29: the only background thread a launched provider runs is the receiver of
\* the control channel, and no step of another background thread reads the
\* surface or changes what the provider has handed to the UI.
C29_OnlyReceiverThread ==
    /\ [](launched_ => BackgroundThreads \subseteq {"receiver"})
    /\ [][mach.thread = "waiting" /\ mach'.thread = "done" =>
             pushed' = pushed /\ mach'.client = mach.client]_vars

ReaderReturns == readerPc \in ReaderPositions /\ readerPc' # readerPc

\* The stream cannot give readFully another byte: stop() has cleared running, the
\* descriptor is closed, or the peer is gone and its bytes are used up.
ReadEnded ==
    LET fd == ipc.socketFD
    IN  \/ ~ipc.running
        \/ fd < 0 \/ ~IsOpen(fdt, fd)
        \/ proc[fdt[fd].pid] # "running" /\ rx'[fdt[fd].pid] = <<>>

\* C31: readFully returns fewer bytes than asked only when the stream has ended
\* or the receiver is stopped, and a short return in the tag, the length header
\* or the payload posts and stores nothing; whatever the receiver posts or stores
\* follows the full read of the last part of a message.
C31_OnlyWholeMessagesDispatched ==
    [][ReaderReturns =>
           /\ Len(BytesReturned) < ReadSize(readerPc) =>
                  /\ ReadEnded
                  /\ asyncQ' = asyncQ /\ pendingTrees' = pendingTrees /\ invoked' = invoked
                  /\ readerPc' \in {"loop", "exited"}
           /\ (asyncQ' # asyncQ \/ pendingTrees' # pendingTrees) =>
                  /\ readerPc \in {"cmp_sub", "juce_data", "midi_data"}
                  /\ Len(BytesReturned) = ReadSize(readerPc)]_vars

\* A child died one byte into a two-byte payload; the receiver has read all of
\* it, met the end of the stream and dispatched nothing.
C31_Witness ==
    /\ wire = <<SubSeq(GenericMsg(LongPayload), 1, 6)>>
    /\ \A p \in Pids : rx[p] = <<>>
    /\ readerPc = "exited"
    /\ ipc.running
    /\ asyncQ = <<>> /\ invoked = <<>>

\* ---------------------------------------------------------------- C32
\* resize takes a step.
ResizeMoves == rz' # rz /\ rz.pc > 0

\* The first n statements of a resize, in the order the claim gives.
StatedUpTo(n) ==
    SubSeq(<<"surface.resize", "ipc.sendInput", "sendSurfacePort",
             "view.setPendingSurface">>, 1, n)

\* C32: the statements a resize call has run are always an initial part of:
\* allocate the surface, write the resize event, push the handle, give the view
\* its pending surface. Each effect of resize happens in the step that completes
\* its own statement, with the earlier effects in place; a failed allocation ends
\* the call with nothing sent, pushed or displayed.
C32_ResizeStepsInOrder ==
    /\ [](\E n \in 0..4 : rz.done = StatedUpTo(n))
    /\ [][ResizeMoves =>
             /\ surface' # surface =>
                    rz.done = StatedUpTo(0) /\ rz'.done = StatedUpTo(1) /\ surface'.cur = rz.id
             /\ calls' # calls =>
                    /\ rz.done = StatedUpTo(1) /\ rz'.done = StatedUpTo(2)
                    /\ surface.cur = rz.id /\ view.pending # rz.id
             /\ pushed' # pushed =>
                    /\ rz.done = StatedUpTo(2) /\ rz'.done = StatedUpTo(3)
                    /\ pushed' = rz.id /\ view.pending # rz.id
             /\ view' # view =>
                    /\ rz.done = StatedUpTo(3) /\ rz'.done = StatedUpTo(4)
                    /\ view'.pending = rz.id
             /\ rz'.pc = 0 /\ rz'.done # StatedUpTo(4) =>
                    /\ rz.pc = 1
                    /\ UNCHANGED <<surface, live, tx, calls, pushed, view>>]_vars

\* A resize has run to its end on a connected provider: the new surface is
\* current, its handle is with the child and the view holds it as pending.
C32_Witness ==
    /\ rz.pc = 0
    /\ Len(rz.done) = 4
    /\ surface.cur = rz.id
    /\ pushed = rz.id
    /\ view.pending = rz.id
    /\ calls # <<>>

\* ---------------------------------------------------------------- C33
\* How many of the messages the peer wrote are m.
Written(m) == Cardinality({i \in 1..Len(wire) : wire[i] = m})

\* How many callbacks of kind cb the receiver has posted: those still queued and
\* those the owning thread has taken.
Posted(cb) == Occurrences(asyncQ, cb) + Occurrences(invoked, cb)

\* C33: the receiver reads every byte as part of the message it belongs to, so
\* it posts no more frame-ready callbacks than the peer wrote frame-ready
\* messages, and no more MIDI callbacks than the peer wrote MIDI messages: bytes
\* of a rejected message are never read as a message of their own.
C33_StaysAlignedAfterRejection ==
    /\ Posted("frameReady") <= Written(FrameReadyMsg)
    /\ Posted("midi") <= Cardinality({i \in 1..Len(wire) : wire[i][1] = EVENT_TYPE_MIDI})

\* ---------------------------------------------------------------- C34
\* The bytes the i-th call made on an open channel hands to the channel.
CallBytes(i) == Flatten(OpenCalls[i].parts)

\* b is an initial part of c, and shorter.
ProperPrefix(b, c) == Len(b) < Len(c) /\ b = SubSeq(c, 1, Len(b))

\* C34: the bytes on a child's stream are the whole messages of the first send
\* calls made on the open channel, in call order, followed by at most a proper
\* initial part of the next call's message; a truncated message is the last
\* thing written: the channel is invalid, no later call wrote, and no step adds
\* a byte to a stream that ends in a truncated message.
C34_WholeMessagesThenOneTruncated ==
    /\ [](\A p \in Pids :
             LET whole == Decode(tx[p])
             IN  /\ Len(whole) <= Len(OpenCalls)
                 /\ \A i \in 1..Len(whole) : whole[i] = CallBytes(i)
                 /\ Residue(tx[p]) # <<>> =>
                        /\ Len(OpenCalls) = Len(whole) + 1
                        /\ ProperPrefix(Residue(tx[p]), CallBytes(Len(whole) + 1))
                        /\ ~IsValid(ipc))
    /\ [][\A p \in Pids : Residue(tx[p]) # <<>> \/ (tx[p] # <<>> /\ ~IsValid(ipc))
                              => tx'[p] = tx[p]]_vars

\* One whole message, then a message cut after its first bytes, and the channel
\* is invalid.
C34_Witness ==
    \E p \in Pids :
        /\ Len(Decode(tx[p])) = 1
        /\ Len(Residue(tx[p])) > 1
        /\ ~IsValid(ipc)

\* ---------------------------------------------------------------- C35
\* stop() has returned on the channel, or the object that owns it is destroyed.
ChannelStopped == destroyed \/ (lastCall.op = "ipc.stop" /\ step = "idle")

\* The owning thread runs the callback at the head of its queue: the lambda tests
\* a handler member of the channel through its captured this.
CallbackRuns == asyncQ # <<>> /\ asyncQ' = Tail(asyncQ)

\* C35: once stop() has returned or the channel is destroyed, no callback that
\* the receiver thread posted runs.
C35_NoCallbackAfterStop == [][ChannelStopped => ~CallbackRuns]_vars

\* ---------------------------------------------------------------- C36
\* The dispatch callbacks of a key: queued, about to be posted by enqueue, or
\* taken by the message loop and not yet through their locked block.
DispatchesFor(key) ==
    Cardinality({i \in 1..Len(asyncQ) : asyncQ[i].cb = "pending" /\ asyncQ[i].key = key})
      + (IF enqueuePc.pc = "post" /\ enqueuePc.key = key THEN 1 ELSE 0)
      + (IF lambdaPc.pc \in {"lock", "locked"} /\ lambdaPc.key = key THEN 1 ELSE 0)

PendingKeys == {key \in DOMAIN pendingTrees : pendingTrees[key] # 0}

\* The handler is entered with this tree.
Dispatched(tree) == lambdaPc.pc = "handler" /\ lambdaPc.tree = tree

\* C36: a key is in the pending map exactly when one dispatch callback is posted
\* or about to be posted for it, so a dispatch that runs finds its key; there
\* are never more entries than distinct keys; and a tree in the map is
\* eventually handed to the handler unless a later tree of the same key
\* replaces it.
C36_OneDispatchPerPendingKey ==
    /\ [](\A key \in DOMAIN pendingTrees :
            DispatchesFor(key) = IF key \in PendingKeys THEN 1 ELSE 0)
    /\ [](lambdaPc.pc = "locked" => lambdaPc.key \in PendingKeys)
    /\ [](Cardinality(PendingKeys) <= Cardinality(Keys))
    /\ \A key \in Keys : \A tree \in TreeCodes :
         (pendingTrees[key] = tree) ~> (Dispatched(tree) \/ pendingTrees[key] \notin {0, tree})

\* A second message replaced the entry of a key whose dispatch is queued, while
\* another key is pending as well.
C36_Witness ==
    /\ Cardinality(PendingKeys) > 1
    /\ \E key \in PendingKeys :
         /\ \E i \in 1..Len(asyncQ) : asyncQ[i].key = key
         /\ \E c \in TreeCodes : c < pendingTrees[key] /\ TreeKey(Trees[c]) = key

\* ---------------------------------------------------------------- C37
\* Neither thread is between taking a surface's handle and delivering it: the
\* handshake thread is outside sendSurfacePort and the owning thread is outside
\* every call.
NoPushInProgress == hs.pc = "none" /\ step = "idle"

\* C37: on a launched provider, when no push is in progress and the channel to
\* the child is up, the handle last delivered is the handle of the provider's
\* current surface.
C37_LastPushIsCurrentSurface ==
    launched_ /\ NoPushInProgress /\ SendPortSucceeds(mach) /\ pushed # 0
        => pushed = surface.cur

\* ---------------------------------------------------------------- C38
\* The receiver thread can run and the channel holds an open descriptor.
ReaderMayUseDescriptor == ReaderCanRead /\ ipc.socketFD >= 0 /\ IsOpen(fdt, ipc.socketFD)

\* C38: while the receiver thread can still run, no step closes the descriptor
\* it polls and reads, and no step invalidates the channel's descriptor member.
C38_DescriptorKeptWhileReaderRuns ==
    [][ReaderMayUseDescriptor
         => IsOpen(fdt', ipc.socketFD) /\ ipc'.socketFD = ipc.socketFD]_vars

\* ---------------------------------------------------------------- C39
\* The provider holds nothing: no child, no open descriptor, no Mach endpoint or
\* handshake thread, no receiver thread, no view and no surface.
ProviderHoldsNothing ==
    /\ NoLiveChild
    /\ FreeFds(fdt) = Fds
    /\ ~mach.server /\ mach.thread = "none"
    /\ readerPc = "none" /\ ~ipc.running
    /\ view = NoView
    /\ surface = NoSurface /\ live = {}

\* C39: a stop() on a provider that holds nothing (never started, start failed,
\* already stopped) makes no system call, joins nothing and changes nothing;
\* after the destructors' two stop() calls the provider holds nothing and its
\* descriptor members are invalid.
C39_StopIsIdempotent ==
    /\ [][todo # <<>> /\ ProviderHoldsNothing /\ OwnerMoves
            => /\ lastSys' = "none"
               /\ UNCHANGED <<surface, live, mach, view, child, fdt, proc, killed,
                              ipc, readerPc>>]_vars
    /\ [](destroyed /\ todo = <<>>
            => /\ ProviderHoldsNothing
               /\ ipc.socketFD = -1 /\ child.stdinFD = -1 /\ child.stdoutFD = -1
               /\ child.pid <= 0)

\* The second stop() of the destructors is under way on a provider that had a
\* child, which the first stop() reaped.
C39_Witness ==
    /\ destroyed
    /\ todo # <<>> /\ Len(todo) <= Len(StopOrder) + Len(MemberDestructors)
    /\ Head(todo) = "ipc"
    /\ ProviderHoldsNothing
    /\ \E p \in Pids : proc[p] = "reaped"

\* ---------------------------------------------------------------- C40
\* C40: once the child has exited, a stop() that waits in its join returns.
C40_StopReturnsAfterChildExit ==
    (uir.stop = "join" /\ ~uir.childUp) ~> (uir.stop = "idle")

====
